---- MODULE Spec2Model ----
(***************************************************************************)
(* A model of the gpui-editor text core: the gap buffer                    *)
(* (src/src/gap_buffer.rs), the line-vector buffer                         *)
(* (src/src/text_buffer.rs), the Editor's cursor and selection model       *)
(* (src/src/editor.rs), its highlighter (src/src/syntax_highlighter.rs)    *)
(* and the editor view over a gap buffer (src/src/main.rs).                *)
(*                                                                         *)
(* A Rust `char` is a string naming the scalar value; a `String`, a        *)
(* `&str` or a `Vec<char>` is a sequence of chars.  Offsets, rows and      *)
(* columns are zero-based as in the source; sequences are one-based, so    *)
(* the element at offset i of a sequence s is s[i + 1].                    *)
(***************************************************************************)
EXTENDS Naturals, Integers, Sequences, FiniteSets, TLC

VARIABLES
    buffer,       \* GapBuffer.buffer: Vec<char>, text and gap
    gap_start,    \* GapBuffer.gap_start
    gap_end,      \* GapBuffer.gap_end (exclusive)
    buffer_lines,      \* Editor.buffer.lines: Vec<String>
    cursor_position,   \* Editor.cursor_position
    goal_column,       \* Editor.goal_column
    selection_anchor,  \* Editor.selection_anchor
    failed,            \* an operation of the Editor has panicked
    syntax_highlighter,  \* Editor.syntax_highlighter
    editor_language,     \* Editor.language
    current_theme,       \* Editor.current_theme
    config,              \* Editor.config: the theme its colors are from
    element_editor,        \* EditorElement.editor: the clone handed to the element
    view_cursor_position,  \* EditorView.cursor_position (src/src/main.rs)
    last,         \* the operation applied last, with its arguments and result
    nops          \* the number of operations applied since construction

gvars == <<buffer, gap_start, gap_end, last, nops>>

evars == <<buffer_lines, cursor_position, goal_column, selection_anchor, failed,
           syntax_highlighter, editor_language, current_theme, config,
           element_editor, view_cursor_position>>

vars == <<buffer, gap_start, gap_end, buffer_lines, cursor_position, goal_column,
          selection_anchor, failed, syntax_highlighter, editor_language, current_theme,
          config, element_editor, view_cursor_position, last, nops>>

-----------------------------------------------------------------------------
(* Bounds of the exploration.                                              *)

\* Longest text handed to from_text / from_lines at construction.
MaxLen == 2

\* Longest run of editing operations explored after construction.
MaxOps == 2

-----------------------------------------------------------------------------
(* Characters and strings.                                                 *)

NL == "\n"

\* "E" stands for a scalar value whose UTF-8 encoding takes two bytes
\* (such as U+00E9); "a" and the newline take one.
Chars == {"a", "E", NL}

\* char::len_utf8
len_utf8(ch) == IF ch = "E" THEN 2 ELSE 1

\* TLC evaluates a LET definition only where it is used; Forced(v) is TRUE
\* and makes it evaluate v at that point, as a statement sequence does.
Forced(v) == v = v

\* Option<T>.  The outcome of a call that may panic is written the same
\* way: Some(result), or None for the panic.
None == <<>>
Some(v) == <<v>>

Min(a, b) == IF a <= b THEN a ELSE b
Max(a, b) == IF a >= b THEN a ELSE b

\* All strings over the characters cs of at most n characters.
StringsOver(cs, n) == UNION {[1..k -> cs] : k \in 0..n}

\* str::len: the length of a string in bytes of its UTF-8 encoding, summed
\* over the characters lo..hi (halving the range keeps the evaluation shallow).
RECURSIVE str_len_range(_, _, _)
str_len_range(s, lo, hi) ==
    IF lo > hi THEN 0
    ELSE IF lo = hi THEN len_utf8(s[lo])
    ELSE LET mid == (lo + hi) \div 2
         IN  str_len_range(s, lo, mid) + str_len_range(s, mid + 1, hi)

str_len(s) == str_len_range(s, 1, Len(s))

\* s[from..to] by character offsets (from inclusive, to exclusive).
Slice(s, from, to) == SubSeq(s, from + 1, to)

\* str::split('\n'): the pieces between newlines, from character i on;
\* always at least one piece.
RECURSIVE split_from(_, _)
split_from(s, i) ==
    LET nls == {k \in i..Len(s) : s[k] = NL}
    IN  IF nls = {} THEN <<SubSeq(s, i, Len(s))>>
        ELSE LET j == CHOOSE k \in nls : \A m \in nls : k <= m
             IN  <<SubSeq(s, i, j - 1)>> \o split_from(s, j + 1)

split(s) == split_from(s, 1)

\* [String]::join("\n")
RECURSIVE join(_)
join(ls) ==
    IF ls = <<>> THEN <<>>
    ELSE IF Len(ls) = 1 THEN ls[1]
    ELSE ls[1] \o <<NL>> \o join(Tail(ls))

-----------------------------------------------------------------------------
(* GapBuffer (src/src/gap_buffer.rs).  A buffer value is a record          *)
(* [buffer, gap_start, gap_end].                                           *)

\* The initial capacity of new(), and the least gap from_text and grow_gap
\* leave.
MinGap == 64

\* '\0', the filler of the gap: "0" names the NUL character.
NUL == "0"

Zeros(n) == [i \in 1..n |-> NUL]

GapBuffer_new ==
    [buffer |-> Zeros(MinGap), gap_start |-> 0, gap_end |-> MinGap]

GapBuffer_from_text(text) ==
    LET text_len == Len(text)
        gap_size == Max(MinGap, text_len \div 4)
        total_size == text_len + gap_size
    IN  [buffer |-> text \o Zeros(gap_size),
         gap_start |-> text_len,
         gap_end |-> total_size]

GapBuffer_from_lines(lines) == GapBuffer_from_text(join(lines))

GapBuffer_gap_size(self) == self.gap_end - self.gap_start

GapBuffer_len(self) == Len(self.buffer) - GapBuffer_gap_size(self)

\* for i in (0..move_count).rev() { buffer[dst0 + i] = buffer[src0 + i] }
\* for i in lo..=hi, highest i first (the upper half of the range, then the
\* lower half).
RECURSIVE copy_right_to_left(_, _, _, _, _)
copy_right_to_left(buf, src0, dst0, lo, hi) ==
    IF lo > hi THEN buf
    ELSE IF lo = hi THEN [buf EXCEPT ![dst0 + lo + 1] = buf[src0 + lo + 1]]
    ELSE LET mid == (lo + hi) \div 2
             upper == copy_right_to_left(buf, src0, dst0, mid + 1, hi)
         IN  IF Forced(upper) THEN copy_right_to_left(upper, src0, dst0, lo, mid) ELSE upper

\* for i in 0..move_count { buffer[dst0 + i] = buffer[src0 + i] }
\* for i in lo..=hi, lowest i first.
RECURSIVE copy_left_to_right(_, _, _, _, _)
copy_left_to_right(buf, src0, dst0, lo, hi) ==
    IF lo > hi THEN buf
    ELSE IF lo = hi THEN [buf EXCEPT ![dst0 + lo + 1] = buf[src0 + lo + 1]]
    ELSE LET mid == (lo + hi) \div 2
             lower == copy_left_to_right(buf, src0, dst0, lo, mid)
         IN  IF Forced(lower) THEN copy_left_to_right(lower, src0, dst0, mid + 1, hi) ELSE lower

\* A faulty variant of move_gap_to: moving the gap left, it copies the lowest
\* index first, overwriting characters it has not read yet.
move_gap_to_ascending(self, pos) ==
    LET text_pos == Min(pos, self.gap_start + (Len(self.buffer) - self.gap_end))
    IN  IF text_pos = self.gap_start THEN self
        ELSE IF text_pos < self.gap_start THEN
            LET move_count == self.gap_start - text_pos
            IN  [buffer |-> copy_left_to_right(self.buffer, text_pos,
                                               self.gap_end - move_count,
                                               0, move_count - 1),
                 gap_start |-> self.gap_start - move_count,
                 gap_end |-> self.gap_end - move_count]
        ELSE
            LET move_count == text_pos - self.gap_start
            IN  [buffer |-> copy_left_to_right(self.buffer, self.gap_end,
                                               self.gap_start, 0, move_count - 1),
                 gap_start |-> self.gap_start + move_count,
                 gap_end |-> self.gap_end + move_count]

GapBuffer_move_gap_to(self, pos) ==
    LET text_pos == Min(pos, GapBuffer_len(self))
    IN  IF text_pos = self.gap_start THEN self
        ELSE IF text_pos < self.gap_start THEN
            LET move_count == self.gap_start - text_pos
            IN  [buffer |-> copy_right_to_left(self.buffer, text_pos,
                                               self.gap_end - move_count,
                                               0, move_count - 1),
                 gap_start |-> self.gap_start - move_count,
                 gap_end |-> self.gap_end - move_count]
        ELSE
            LET buffer_pos == text_pos + GapBuffer_gap_size(self)
                move_count == buffer_pos - self.gap_end
            IN  [buffer |-> copy_left_to_right(self.buffer, self.gap_end,
                                               self.gap_start, 0, move_count - 1),
                 gap_start |-> self.gap_start + move_count,
                 gap_end |-> self.gap_end + move_count]

\* A faulty variant of grow_gap: the text after the gap stays at its old
\* offsets instead of moving behind the new gap.
grow_gap_tail_in_place(self) ==
    LET old_size == Len(self.buffer)
        new_gap_size == Max(MinGap, old_size \div 4)
        new_size == old_size + new_gap_size
    IN  [buffer |-> [i \in 1..new_size |->
                        IF i <= self.gap_start THEN self.buffer[i]
                        ELSE IF i > self.gap_end /\ i <= old_size THEN self.buffer[i]
                        ELSE NUL],
         gap_start |-> self.gap_start,
         gap_end |-> self.gap_start + new_gap_size]

\* A faulty variant of grow_gap: the new gap is as large as the old buffer.
grow_gap_doubling(self) ==
    LET old_size == Len(self.buffer)
        text_after_gap == old_size - self.gap_end
    IN  [buffer |-> SubSeq(self.buffer, 1, self.gap_start) \o Zeros(old_size)
                    \o SubSeq(self.buffer, self.gap_end + 1, old_size),
         gap_start |-> self.gap_start,
         gap_end |-> self.gap_start + old_size]

GapBuffer_grow_gap(self) ==
    LET old_size == Len(self.buffer)
        new_gap_size == Max(MinGap, old_size \div 4)
        new_size == old_size + new_gap_size
        text_after_gap == old_size - self.gap_end
    IN  [buffer |-> [i \in 1..new_size |->
                        IF i <= self.gap_start THEN self.buffer[i]
                        ELSE IF i > self.gap_start + new_gap_size
                                /\ i <= self.gap_start + new_gap_size + text_after_gap
                             THEN self.buffer[self.gap_end + (i - self.gap_start - new_gap_size)]
                        ELSE NUL],
         gap_start |-> self.gap_start,
         gap_end |-> self.gap_start + new_gap_size]

GapBuffer_insert_char(self, ch) ==
    LET grown == IF GapBuffer_gap_size(self) = 0 THEN GapBuffer_grow_gap(self) ELSE self
    IN  [grown EXCEPT !.buffer[grown.gap_start + 1] = ch,
                      !.gap_start = grown.gap_start + 1]

\* for ch in text.chars() { self.insert_char(ch) }, over the characters
\* lo..hi of text in order (the lower half of the range, then the upper).
RECURSIVE insert_chars(_, _, _, _)
insert_chars(self, text, lo, hi) ==
    IF lo > hi THEN self
    ELSE IF lo = hi THEN GapBuffer_insert_char(self, text[lo])
    ELSE LET mid == (lo + hi) \div 2
             lower == insert_chars(self, text, lo, mid)
         IN  IF Forced(lower) THEN insert_chars(lower, text, mid + 1, hi) ELSE lower

GapBuffer_insert(self, pos, text) ==
    insert_chars(GapBuffer_move_gap_to(self, pos), text, 1, Len(text))

\* A faulty variant of delete_backward: no check for offset 0.
delete_backward_unguarded(self) == [self EXCEPT !.gap_start = self.gap_start - 1]

GapBuffer_delete_backward(self) ==
    IF self.gap_start > 0 THEN [self EXCEPT !.gap_start = self.gap_start - 1]
    ELSE self

\* A faulty variant of delete_forward: no check for the end of the buffer.
delete_forward_unguarded(self) == [self EXCEPT !.gap_end = self.gap_end + 1]

GapBuffer_delete_forward(self) ==
    IF self.gap_end < Len(self.buffer) THEN [self EXCEPT !.gap_end = self.gap_end + 1]
    ELSE self

\* A faulty variant of delete_range: the gap is widened where it stands,
\* without first moving it to the start of the range.
delete_range_without_move(self, start0, end0) ==
    LET start == Min(start0, GapBuffer_len(self))
        end == Min(end0, GapBuffer_len(self))
    IN  IF start >= end THEN self
        ELSE [self EXCEPT !.gap_end = Min(self.gap_end + (end - start), Len(self.buffer))]

GapBuffer_delete_range(self, start0, end0) ==
    LET start == Min(start0, GapBuffer_len(self))
        end == Min(end0, GapBuffer_len(self))
    IN  IF start >= end THEN self
        ELSE LET moved == GapBuffer_move_gap_to(self, start)
                 delete_count == end - start
                 new_gap_end == Min(moved.gap_end + delete_count, Len(moved.buffer))
             IN  [moved EXCEPT !.gap_end = new_gap_end]

GapBuffer_to_string(self) ==
    SubSeq(self.buffer, 1, self.gap_start)
        \o SubSeq(self.buffer, self.gap_end + 1, Len(self.buffer))

\* A faulty variant of to_lines: it splits as str::lines does, which yields
\* no empty line after a final newline.
to_lines_as_str_lines(self) ==
    LET text == GapBuffer_to_string(self)
    IN  IF text = <<>> THEN << <<>> >>
        ELSE LET lines == split(text)
             IN  IF lines[Len(lines)] = <<>> THEN SubSeq(lines, 1, Len(lines) - 1)
                 ELSE lines

GapBuffer_to_lines(self) ==
    LET text == GapBuffer_to_string(self)
    IN  IF text = <<>> THEN << <<>> >>
        ELSE LET lines == split(text)
             IN  IF lines = <<>> THEN << <<>> >> ELSE lines

\* The loop of cursor_to_position over the lines, from line i (zero-based)
\* with pos characters counted so far.
RECURSIVE cursor_to_position_from(_, _, _, _, _)
cursor_to_position_from(lines, i, pos, row, col) ==
    IF i >= Len(lines) THEN pos
    ELSE IF i = row THEN pos + Min(col, str_len(lines[i + 1]))
    ELSE cursor_to_position_from(
            lines, i + 1,
            pos + str_len(lines[i + 1]) + (IF i < Len(lines) - 1 THEN 1 ELSE 0),
            row, col)

GapBuffer_cursor_to_position(self, row, col) ==
    cursor_to_position_from(split(GapBuffer_to_string(self)), 0, 0, row, col)

\* The loop of position_to_cursor, from line `row` with current_pos counted.
RECURSIVE position_to_cursor_from(_, _, _, _)
position_to_cursor_from(lines, row, current_pos, pos) ==
    IF row >= Len(lines) THEN
        IF lines = <<>> THEN <<0, 0>>
        ELSE <<Len(lines) - 1, str_len(lines[Len(lines)])>>
    ELSE LET line_end == current_pos + str_len(lines[row + 1])
         IN  IF pos <= line_end THEN <<row, pos - current_pos>>
             ELSE position_to_cursor_from(
                    lines, row + 1,
                    line_end + (IF row < Len(lines) - 1 THEN 1 ELSE 0),
                    pos)

\* A faulty variant of position_to_cursor: an offset at the end of a row is
\* passed on to the next row (pos < line_end for pos <= line_end).
RECURSIVE position_to_cursor_from_strict(_, _, _, _)
position_to_cursor_from_strict(lines, row, current_pos, pos) ==
    IF row >= Len(lines) THEN
        IF lines = <<>> THEN <<0, 0>>
        ELSE <<Len(lines) - 1, str_len(lines[Len(lines)])>>
    ELSE LET line_end == current_pos + str_len(lines[row + 1])
         IN  IF pos < line_end THEN <<row, pos - current_pos>>
             ELSE position_to_cursor_from_strict(
                    lines, row + 1,
                    line_end + (IF row < Len(lines) - 1 THEN 1 ELSE 0),
                    pos)

position_to_cursor_strict(self, pos0) ==
    LET text == GapBuffer_to_string(self)
        pos == Min(pos0, str_len(text))
    IN  position_to_cursor_from_strict(split(text), 0, 0, pos)

GapBuffer_position_to_cursor(self, pos0) ==
    LET text == GapBuffer_to_string(self)
        pos == Min(pos0, str_len(text))
    IN  position_to_cursor_from(split(text), 0, 0, pos)

GapBuffer_line_count(self) ==
    LET text == GapBuffer_to_string(self)
    IN  IF text = <<>> THEN 1 ELSE Max(Len(split(text)), 1)

\* get_line is todo!(): the outcome of every call is the panic.
GapBuffer_get_line(self, line_idx) == None

GapBuffer_all_lines(self) == GapBuffer_to_lines(self)

GapBuffer_line_len(self, line_idx) ==
    LET lines == GapBuffer_all_lines(self)
    IN  IF line_idx < Len(lines) THEN str_len(lines[line_idx + 1]) ELSE 0

GapBuffer_insert_at(self, row, col, text) ==
    GapBuffer_insert(self, GapBuffer_cursor_to_position(self, row, col), text)

GapBuffer_delete_at(self, row, col) ==
    GapBuffer_delete_forward(
        GapBuffer_move_gap_to(self, GapBuffer_cursor_to_position(self, row, col)))

GapBuffer_backspace_at(self, row, col) ==
    GapBuffer_delete_backward(
        GapBuffer_move_gap_to(self, GapBuffer_cursor_to_position(self, row, col)))

-----------------------------------------------------------------------------
(* Rust strings and vectors as the Editor uses them.  A String is indexed  *)
(* by byte offsets into its UTF-8 encoding; slicing, insert and remove     *)
(* panic at an offset that is out of range or inside a character.          *)

\* str::is_char_boundary: k is 0, the length, or the start of a character.
is_char_boundary(s, k) == \E i \in 0..Len(s) : str_len_range(s, 1, i) = k

\* The number of characters before the char boundary at byte offset k.
char_index(s, k) == CHOOSE i \in 0..Len(s) : str_len_range(s, 1, i) = k

\* &s[..k] and &s[k..] for a char boundary k.
str_to(s, k) == SubSeq(s, 1, char_index(s, k))
str_from(s, k) == SubSeq(s, char_index(s, k) + 1, Len(s))

\* String::insert(idx, ch) and String::remove(idx) where they do not panic.
String_insert(s, idx, ch) == str_to(s, idx) \o <<ch>> \o str_from(s, idx)
String_remove(s, idx) == str_to(s, idx) \o Tail(str_from(s, idx))

\* Vec::remove(i), Vec::insert(i, x) and vec[i] = x for an index in range.
Vec_remove(v, i) == SubSeq(v, 1, i) \o SubSeq(v, i + 2, Len(v))
Vec_insert(v, i, x) == SubSeq(v, 1, i) \o <<x>> \o SubSeq(v, i + 1, Len(v))
Vec_set(v, i, x) == [v EXCEPT ![i + 1] = x]

-----------------------------------------------------------------------------
(* SimpleBuffer (src/src/text_buffer.rs): the value is its `lines` vector. *)

\* The constructor without its guard against an empty line list.
SimpleBuffer_new_unguarded(lines) == lines

SimpleBuffer_new(lines) == IF lines = <<>> THEN << <<>> >> ELSE lines

SimpleBuffer_line_count(lines) == Len(lines)

SimpleBuffer_get_line(lines, line_idx) ==
    IF line_idx < Len(lines) THEN Some(lines[line_idx + 1]) ELSE None

\* TextBuffer::line_len, the default method of the trait.
SimpleBuffer_line_len(lines, line_idx) ==
    LET line == SimpleBuffer_get_line(lines, line_idx)
    IN  IF line = None THEN 0 ELSE str_len(line[1])

SimpleBuffer_all_lines(lines) == lines

\* str::lines: the pieces between newlines, without an empty piece after a
\* final newline; no piece at all for the empty text.
str_lines(text) ==
    IF text = <<>> THEN <<>>
    ELSE LET pieces == split(text)
         IN  IF pieces[Len(pieces)] = <<>>
             THEN SubSeq(pieces, 1, Len(pieces) - 1)
             ELSE pieces

SimpleBuffer_from_text(text) == SimpleBuffer_new(str_lines(text))

\* The three editing methods give [lines, failed]: the lines after the
\* call, and whether it panicked.
Done(lines) == [lines |-> lines, failed |-> FALSE]
Panicked(lines) == [lines |-> lines, failed |-> TRUE]

SimpleBuffer_insert_at(lines, row, col0, text) ==
    IF row >= Len(lines) THEN Done(lines)
    ELSE
    LET current_line == lines[row + 1]
        col == Min(col0, str_len(current_line))
    IN  IF ~is_char_boundary(current_line, col) THEN Panicked(lines)
        ELSE IF \E i \in 1..Len(text) : text[i] = NL
        THEN LET new_lines == split(text)
                 first_part == str_to(current_line, col)
                 last_part == str_from(current_line, col)
                 last_idx == Len(new_lines) - 1
             \* lines[row] becomes first_part ++ new_lines[0]; new_lines[i]
             \* goes in at row + i, the last one followed by last_part
             IN  Done(SubSeq(lines, 1, row)
                      \o <<first_part \o new_lines[1]>>
                      \o SubSeq(new_lines, 2, last_idx)
                      \o <<new_lines[last_idx + 1] \o last_part>>
                      \o SubSeq(lines, row + 2, Len(lines)))
        ELSE Done(Vec_set(lines, row,
                          str_to(current_line, col) \o text \o str_from(current_line, col)))

SimpleBuffer_delete_at(lines, row, col) ==
    IF row >= Len(lines) THEN Done(lines)
    ELSE
    LET line == lines[row + 1]
    IN  IF col < str_len(line)
        THEN IF ~is_char_boundary(line, col) THEN Panicked(lines)
             ELSE Done(Vec_set(lines, row, String_remove(line, col)))
        ELSE IF row < Len(lines) - 1
        THEN LET next_line == lines[row + 2]
             IN  Done(Vec_set(Vec_remove(lines, row + 1), row, line \o next_line))
        ELSE Done(lines)

SimpleBuffer_backspace_at(lines, row, col) ==
    IF row >= Len(lines) THEN Done(lines)
    ELSE
    LET line == lines[row + 1]
    IN  IF col > 0
        THEN IF col - 1 >= str_len(line) \/ ~is_char_boundary(line, col - 1)
             THEN Panicked(lines)
             ELSE Done(Vec_set(lines, row, String_remove(line, col - 1)))
        ELSE IF row > 0
        THEN LET current_line == line
                 removed == Vec_remove(lines, row)
             IN  Done(Vec_set(removed, row - 1, removed[row] \o current_line))
        ELSE Done(lines)

-----------------------------------------------------------------------------
(* SyntaxHighlighter (src/src/syntax_highlighter.rs).  A highlighter value *)
(* is the record [current_theme, parse_states, highlight_states] of its    *)
(* SyntaxHighlighterInner.  The syntaxes and the themes are the library's: *)
(* two of each stand for those it loads.  The library's lexer is modelled  *)
(* by the one piece of context that crosses lines here, being inside a     *)
(* string literal, and its colorizer by the stack of scopes it has been    *)
(* told to push.                                                           *)

\* inner.syntax_set and inner.theme_set.themes, by name.
KnownSyntaxes == {"Rust", "Python"}
KnownThemes == {"Monokai", "InspiredGitHub"}

\* The delimiter of a string literal: it opens one outside a literal and
\* closes it inside.
Quote == "\""

\* ParseState::new(syntax)
ParseState_new(syntax) == [syntax |-> syntax, in_string |-> FALSE]

\* ParseState::parse_line from character i on: the state it leaves and the
\* scope operations it reports, each with the byte offset it applies at.
\* The scope of a literal begins before its opening delimiter and ends
\* after its closing one.
RECURSIVE parse_line_from(_, _, _, _)
parse_line_from(line, i, state, ops) ==
    IF i > Len(line) THEN [state |-> state, ops |-> ops]
    ELSE IF line[i] # Quote THEN parse_line_from(line, i + 1, state, ops)
    ELSE IF ~state.in_string
    THEN parse_line_from(line, i + 1, [state EXCEPT !.in_string = TRUE],
                         Append(ops, [at |-> str_len_range(line, 1, i - 1), op |-> "push"]))
    ELSE parse_line_from(line, i + 1, [state EXCEPT !.in_string = FALSE],
                         Append(ops, [at |-> str_len_range(line, 1, i), op |-> "pop"]))

ParseState_parse_line(state, line) == parse_line_from(line, 1, state, <<>>)

\* HighlightState::new(&Highlighter::new(theme), ScopeStack::new())
HighlightState_new(theme) == [theme |-> theme, depth |-> 0]

\* The style the colorizer gives text in its present state.
Style(highlight_state) ==
    [theme |-> highlight_state.theme,
     scope |-> IF highlight_state.depth > 0 THEN "string" ELSE "source"]

\* HighlightIterator: a piece (style, byte length) of the line up to each
\* operation, which is then applied to the state, and a last piece for the
\* rest of the line if there is any; pieces may be empty.
RECURSIVE HighlightIterator(_, _, _, _, _)
HighlightIterator(highlight_state, ops, line, pos, pieces) ==
    IF ops = <<>>
    THEN [state |-> highlight_state,
          pieces |-> IF pos = str_len(line) THEN pieces
                     ELSE Append(pieces, [style |-> Style(highlight_state),
                                          len |-> str_len(line) - pos])]
    ELSE LET op == Head(ops)
             next == IF op.op = "push"
                     THEN [highlight_state EXCEPT !.depth = @ + 1]
                     ELSE [highlight_state EXCEPT !.depth = Max(@ - 1, 0)]
         IN  HighlightIterator(next, Tail(ops), line, op.at,
                               Append(pieces, [style |-> Style(highlight_state),
                                               len |-> op.at - pos]))

\* The run of the fallbacks: the whole line in the default style.
PlainRun(line) == [style |-> "plain", len |-> str_len(line)]

\* A cached state, with the line number of the call that stored it.
Cached(state, line_number) == Some([state |-> state, line |-> line_number])

SyntaxHighlighter_new ==
    [current_theme |-> "Monokai",
     parse_states |-> [language \in KnownSyntaxes |-> None],
     highlight_states |-> [key \in KnownSyntaxes \X KnownThemes |-> None]]

SyntaxHighlighter_set_theme(inner, theme_name) ==
    IF theme_name \in KnownThemes
    THEN [inner EXCEPT !.current_theme = theme_name,
                       !.highlight_states = [key \in DOMAIN @ |-> None]]
    ELSE inner

\* SyntaxHighlighter::detect_language with the extension "rs".
SyntaxHighlighter_detect_language == Some("Rust")

\* The state highlight_line stores for the next line.
stored_parse_state(parse_state, line) ==
    ParseState_parse_line(parse_state, line).state

\* The runs of the pieces, those of length 0 left out.
text_runs_of(pieces) == SelectSeq(pieces, LAMBDA piece : piece.len # 0)

\* A faulty variant of the last step of highlight_line: no run is added
\* when the pieces gave none.
runs_without_fallback(text_runs, line) == text_runs

runs_or_fallback(text_runs, line) ==
    IF text_runs = <<>> THEN <<PlainRun(line)>> ELSE text_runs

\* highlight_line: the highlighter after the call and the runs returned.
SyntaxHighlighter_highlight_line(inner, line, language, line_number) ==
    IF language \notin KnownSyntaxes
    THEN [inner |-> inner, runs |-> <<PlainRun(line)>>]
    ELSE
    LET cache_key == <<language, inner.current_theme>>
        parse_state_key == language
        cleared == IF line_number = 0
                   THEN [inner EXCEPT !.parse_states[parse_state_key] = None,
                                      !.highlight_states[cache_key] = None]
                   ELSE inner
        parse_state == IF line_number = 0 THEN ParseState_new(language)
                       ELSE IF cleared.parse_states[parse_state_key] # None
                       THEN cleared.parse_states[parse_state_key][1].state
                       ELSE ParseState_new(language)
        parsed == ParseState_parse_line(parse_state, line)
        highlight_state == IF line_number = 0 THEN HighlightState_new(inner.current_theme)
                           ELSE IF cleared.highlight_states[cache_key] # None
                           THEN cleared.highlight_states[cache_key][1].state
                           ELSE HighlightState_new(inner.current_theme)
        ranges == HighlightIterator(highlight_state, parsed.ops, line, 0, <<>>)
        text_runs == runs_or_fallback(text_runs_of(ranges.pieces), line)
        new_parse_state == stored_parse_state(parsed.state, line)
    IN  [inner |-> [cleared EXCEPT
                      !.parse_states[parse_state_key] = Cached(new_parse_state, line_number),
                      !.highlight_states[cache_key] = Cached(ranges.state, line_number)],
         runs |-> text_runs]

\* reset_state, which src/ calls and does not define: every cached state
\* is discarded.
SyntaxHighlighter_reset_state(inner) ==
    [inner EXCEPT !.parse_states = [key \in DOMAIN @ |-> None],
                  !.highlight_states = [key \in DOMAIN @ |-> None]]

\* clear_state_from_line, which src/ calls and does not define: the cached
\* states of the language that lines from `line` on stored are discarded.
SyntaxHighlighter_clear_state_from_line(inner, line, language) ==
    LET kept(entry) == IF entry # None /\ entry[1].line >= line THEN None ELSE entry
    IN  [inner EXCEPT
           !.parse_states = [key \in DOMAIN @ |->
                                IF key = language THEN kept(@[key]) ELSE @[key]],
           !.highlight_states = [key \in DOMAIN @ |->
                                    IF key[1] = language THEN kept(@[key]) ELSE @[key]]]

-----------------------------------------------------------------------------
(* Editor (src/src/editor.rs).  An editor value is the record              *)
(* [lines, cursor_position, goal_column, selection_anchor, failed,         *)
(* syntax_highlighter, editor_language, current_theme, config]: the lines of its  *)
(* SimpleBuffer, its cursor and selection fields, whether an operation on  *)
(* it has panicked, its highlighter, language and theme, and the theme the *)
(* colors of its configuration were taken from.                            *)

CursorPosition(row, col) == [row |-> row, col |-> col]

\* A panic raised in state self: the fields assigned so far stay.
Panic(self) == [self EXCEPT !.failed = TRUE]

Editor_new(lines) ==
    [lines |-> SimpleBuffer_new(lines),
     cursor_position |-> CursorPosition(0, 0),
     goal_column |-> None,
     selection_anchor |-> None,
     failed |-> FALSE,
     syntax_highlighter |-> SyntaxHighlighter_new,
     language |-> IF SyntaxHighlighter_detect_language # None
                  THEN SyntaxHighlighter_detect_language[1] ELSE "Rust",
     current_theme |-> "",
     config |-> "default"]

\* self.syntax_highlighter.clear_state_from_line(line, &self.language)
clear_state_from_line(self, line) ==
    [self EXCEPT !.syntax_highlighter =
                     SyntaxHighlighter_clear_state_from_line(@, line, self.language)]

Editor_set_language(self, new_language) == [self EXCEPT !.language = new_language]

\* The colors are read from the highlighter's theme after the call.
Editor_set_theme(self, theme) ==
    LET inner == SyntaxHighlighter_set_theme(self.syntax_highlighter, theme)
    IN  [self EXCEPT !.current_theme = theme,
                     !.syntax_highlighter = inner,
                     !.config = inner.current_theme]

\* Editor::highlight_line: the editor after the call and the runs returned.
Editor_highlight_line(self, line, line_index) ==
    LET out == SyntaxHighlighter_highlight_line(self.syntax_highlighter, line,
                                                self.language, line_index)
    IN  [self |-> [self EXCEPT !.syntax_highlighter = out.inner], runs |-> out.runs]

Editor_set_cursor_position(self, position) ==
    [self EXCEPT !.cursor_position = position, !.goal_column = None]

Editor_clear_selection(self) ==
    [self EXCEPT !.selection_anchor = None, !.goal_column = None]

Editor_update_buffer(self, lines) ==
    [self EXCEPT !.lines = SimpleBuffer_new(lines),
                 !.syntax_highlighter = SyntaxHighlighter_reset_state(@)]

Editor_update_line(self, line_index, new_content) ==
    LET lines == SimpleBuffer_all_lines(self.lines)
    IN  IF line_index < Len(lines)
        THEN clear_state_from_line(
                 [self EXCEPT !.lines = SimpleBuffer_new(Vec_set(lines, line_index, new_content))],
                 line_index)
        ELSE self

\* A faulty variant of the anchor rule: with shift held the selection is
\* started again at the cursor even where there is one already.
move_anchor_restarting(self, shift_held) ==
    IF shift_held
    THEN [self EXCEPT !.selection_anchor = Some(self.cursor_position)]
    ELSE [self EXCEPT !.selection_anchor = None]

\* The first statement of the four movement methods: shift starts a
\* selection at the cursor or keeps the one there is; no shift drops it.
move_anchor(self, shift_held) ==
    IF shift_held /\ self.selection_anchor = None
    THEN [self EXCEPT !.selection_anchor = Some(self.cursor_position)]
    ELSE IF ~shift_held
    THEN [self EXCEPT !.selection_anchor = None]
    ELSE self

\* A faulty variant of move_left: from column 0 it goes to the start of
\* the previous row, not to its end.
move_left_to_row_start(self, shift_held) ==
    LET s == [move_anchor(self, shift_held) EXCEPT !.goal_column = None]
        cur == s.cursor_position
    IN  IF cur.col > 0
        THEN [s EXCEPT !.cursor_position.col = cur.col - 1]
        ELSE IF cur.row > 0
        THEN [s EXCEPT !.cursor_position = CursorPosition(cur.row - 1, 0)]
        ELSE s

Editor_move_left(self, shift_held) ==
    LET s == [move_anchor(self, shift_held) EXCEPT !.goal_column = None]
        cur == s.cursor_position
    IN  IF cur.col > 0
        THEN [s EXCEPT !.cursor_position.col = cur.col - 1]
        ELSE IF cur.row > 0
        THEN [s EXCEPT !.cursor_position =
                 CursorPosition(cur.row - 1, SimpleBuffer_line_len(s.lines, cur.row - 1))]
        ELSE s

Editor_move_right(self, shift_held) ==
    LET s == [move_anchor(self, shift_held) EXCEPT !.goal_column = None]
        cur == s.cursor_position
        current_line_len == SimpleBuffer_line_len(s.lines, cur.row)
    IN  IF cur.col < current_line_len
        THEN [s EXCEPT !.cursor_position.col = cur.col + 1]
        ELSE IF cur.row < Max(SimpleBuffer_line_count(s.lines), 1) - 1
        THEN [s EXCEPT !.cursor_position = CursorPosition(cur.row + 1, 0)]
        ELSE s

\* A faulty variant of the vertical move: the goal column is taken from
\* the cursor on every move, also where one is set.
move_vertically_recapturing(s, row) ==
    LET goal == Some(s.cursor_position.col)
        line_len == SimpleBuffer_line_len(s.lines, row)
    IN  [s EXCEPT !.goal_column = goal,
                  !.cursor_position = CursorPosition(row, Min(goal[1], line_len))]

\* The body shared by move_up and move_down once the row `row` to go to is
\* known: the goal column is set from the cursor if unset, then used,
\* clamped to the length of the row.
move_vertically(s, row) ==
    LET goal == IF s.goal_column = None THEN Some(s.cursor_position.col)
                ELSE s.goal_column
        line_len == SimpleBuffer_line_len(s.lines, row)
    IN  [s EXCEPT !.goal_column = goal,
                  !.cursor_position = CursorPosition(row, Min(goal[1], line_len))]

Editor_move_up(self, shift_held) ==
    LET s == move_anchor(self, shift_held)
    IN  IF s.cursor_position.row > 0
        THEN move_vertically(s, s.cursor_position.row - 1)
        ELSE s

Editor_move_down(self, shift_held) ==
    LET s == move_anchor(self, shift_held)
    IN  IF s.cursor_position.row < Max(SimpleBuffer_line_count(s.lines), 1) - 1
        THEN move_vertically(s, s.cursor_position.row + 1)
        ELSE s

\* A faulty variant of select_all: the cursor goes to the start of the
\* last row, not to its end.
select_all_to_row_start(self) ==
    LET last_row == Max(SimpleBuffer_line_count(self.lines), 1) - 1
    IN  [self EXCEPT !.goal_column = None,
                     !.selection_anchor = Some(CursorPosition(0, 0)),
                     !.cursor_position = CursorPosition(last_row, 0)]

Editor_select_all(self) ==
    LET last_row == Max(SimpleBuffer_line_count(self.lines), 1) - 1
        last_col == SimpleBuffer_line_len(self.lines, last_row)
    IN  [self EXCEPT !.goal_column = None,
                     !.selection_anchor = Some(CursorPosition(0, 0)),
                     !.cursor_position = CursorPosition(last_row, last_col)]

Editor_has_selection(self) == self.selection_anchor # None

\* A faulty variant of get_selection_range: the anchor always comes first.
get_selection_range_anchor_first(self) ==
    IF self.selection_anchor = None THEN None
    ELSE Some(<<self.selection_anchor[1], self.cursor_position>>)

\* Some(<<start, end>>) in document order, or None.
Editor_get_selection_range(self) ==
    IF self.selection_anchor = None THEN None
    ELSE LET anchor == self.selection_anchor[1]
             cur == self.cursor_position
         IN  IF \/ anchor.row < cur.row
                \/ (anchor.row = cur.row /\ anchor.col < cur.col)
             THEN Some(<<anchor, cur>>)
             ELSE Some(<<cur, anchor>>)

Editor_delete_selection(self) ==
    LET range == Editor_get_selection_range(self)
    IN  IF range = None THEN self
        ELSE
        LET start == range[1][1]
            end == range[1][2]
            lines == SimpleBuffer_all_lines(self.lines)
        IN  IF start.row >= Len(lines) \/ end.row >= Len(lines) THEN Panic(self)
            ELSE
            LET first_line == lines[start.row + 1]
                last_line == lines[end.row + 1]
                from == Min(start.col, str_len(first_line))
                to == Min(end.col, str_len(last_line))
            IN  IF ~is_char_boundary(first_line, from) \/ ~is_char_boundary(last_line, to)
                THEN Panic(self)
                ELSE
                LET new_line == str_to(first_line, from) \o str_from(last_line, to)
                    \* lines[start.row] = new_line, or the splice of
                    \* start.row..=end.row by the one new line
                    new_lines == SubSeq(lines, 1, start.row) \o <<new_line>>
                                     \o SubSeq(lines, end.row + 2, Len(lines))
                IN  clear_state_from_line(
                        [self EXCEPT !.lines = SimpleBuffer_new(new_lines),
                                     !.cursor_position = start,
                                     !.selection_anchor = None,
                                     !.goal_column = None],
                        start.row)

Editor_insert_char(self, ch) ==
    LET s == Editor_delete_selection(self)
        cur == s.cursor_position
        lines == SimpleBuffer_all_lines(s.lines)
    IN  IF s.failed THEN s
        ELSE IF cur.row >= Len(lines) THEN Panic(s)
        ELSE
        LET line == lines[cur.row + 1]
            insert_pos == Min(cur.col, str_len(line))
        IN  IF ~is_char_boundary(line, insert_pos) THEN Panic(s)
            ELSE [clear_state_from_line(s, cur.row) EXCEPT
                    !.lines = SimpleBuffer_new(
                                  Vec_set(lines, cur.row, String_insert(line, insert_pos, ch))),
                    !.cursor_position.col = cur.col + 1,
                    !.goal_column = None]

Editor_insert_newline(self) ==
    LET s == Editor_delete_selection(self)
        cur == s.cursor_position
        lines == SimpleBuffer_all_lines(s.lines)
    IN  IF s.failed THEN s
        ELSE IF cur.row >= Len(lines) THEN Panic(s)
        ELSE
        LET current_line == lines[cur.row + 1]
            mid == Min(cur.col, str_len(current_line))
        IN  IF ~is_char_boundary(current_line, mid) THEN Panic(s)
            ELSE
            LET before == str_to(current_line, mid)
                after == str_from(current_line, mid)
            IN  [clear_state_from_line(s, Max(cur.row + 1 - 1, 0)) EXCEPT
                    !.lines = SimpleBuffer_new(
                                  Vec_insert(Vec_set(lines, cur.row, before), cur.row + 1, after)),
                    !.cursor_position = CursorPosition(cur.row + 1, 0),
                    !.goal_column = None]

\* backspace once delete_selection has returned false.
backspace_char(self) ==
    LET cur == self.cursor_position
        lines == SimpleBuffer_all_lines(self.lines)
    IN  IF cur.col > 0
        THEN IF cur.row >= Len(lines) THEN Panic(self)
             ELSE
             LET line == lines[cur.row + 1]
             IN  IF cur.col <= str_len(line) /\ ~is_char_boundary(line, cur.col - 1)
                 THEN Panic(self)
                 ELSE [clear_state_from_line(self, cur.row) EXCEPT
                         !.lines = SimpleBuffer_new(
                                       IF cur.col <= str_len(line)
                                       THEN Vec_set(lines, cur.row, String_remove(line, cur.col - 1))
                                       ELSE lines),
                         !.cursor_position.col = cur.col - 1,
                         !.goal_column = None]
        ELSE IF cur.row > 0
        THEN IF cur.row >= Len(lines) THEN Panic(self)
             ELSE
             LET current_line == lines[cur.row + 1]
                 removed == Vec_remove(lines, cur.row)
                 prev_line_len == str_len(removed[cur.row])
             IN  [clear_state_from_line(self, cur.row - 1) EXCEPT
                     !.lines = SimpleBuffer_new(
                                   Vec_set(removed, cur.row - 1, removed[cur.row] \o current_line)),
                     !.cursor_position = CursorPosition(cur.row - 1, prev_line_len),
                     !.goal_column = None]
        ELSE [self EXCEPT !.goal_column = None]

\* A faulty variant of backspace: after deleting the selection it goes on
\* to delete the character before the cursor.
backspace_past_selection(self) ==
    backspace_char(Editor_delete_selection(self))

Editor_backspace(self) ==
    IF Editor_has_selection(self) THEN Editor_delete_selection(self)
    ELSE backspace_char(self)

Editor_delete(self) ==
    IF Editor_has_selection(self) THEN Editor_delete_selection(self)
    ELSE
    LET cur == self.cursor_position
        lines == SimpleBuffer_all_lines(self.lines)
        current_line_len == SimpleBuffer_line_len(self.lines, cur.row)
    IN  IF cur.col < current_line_len
        THEN LET line == lines[cur.row + 1]
             IN  IF ~is_char_boundary(line, cur.col) THEN Panic(self)
                 ELSE [clear_state_from_line(self, cur.row) EXCEPT
                         !.lines = SimpleBuffer_new(
                                       Vec_set(lines, cur.row, String_remove(line, cur.col))),
                         !.goal_column = None]
        \* line_count() - 1 overflows on a buffer without lines
        ELSE IF SimpleBuffer_line_count(self.lines) = 0 THEN Panic(self)
        ELSE IF cur.row < SimpleBuffer_line_count(self.lines) - 1
        THEN LET next_line == lines[cur.row + 2]
                 removed == Vec_remove(lines, cur.row + 1)
             IN  [clear_state_from_line(self, cur.row) EXCEPT
                     !.lines = SimpleBuffer_new(
                                   Vec_set(removed, cur.row, removed[cur.row + 1] \o next_line)),
                     !.goal_column = None]
        ELSE [self EXCEPT !.goal_column = None]

\* The loop of get_selected_text over the rows start.row..=end.row of a
\* selection of several rows, from row `row` on, with the text pushed so
\* far; None when a slice panics.
RECURSIVE selected_text_from(_, _, _, _, _)
selected_text_from(lines, row, start, end, selected_text) ==
    IF row > end.row THEN Some(selected_text)
    ELSE
    LET line == lines[row + 1]
        from == Min(start.col, str_len(line))
        to == Min(end.col, str_len(line))
    IN  IF row = start.row
        THEN IF ~is_char_boundary(line, from) THEN None
             ELSE selected_text_from(lines, row + 1, start, end,
                                     selected_text \o str_from(line, from) \o <<NL>>)
        ELSE IF row = end.row
        THEN IF ~is_char_boundary(line, to) THEN None
             ELSE selected_text_from(lines, row + 1, start, end,
                                     selected_text \o str_to(line, to))
        ELSE selected_text_from(lines, row + 1, start, end,
                                selected_text \o line \o <<NL>>)

\* Some(text), or None when the method panics.
Editor_get_selected_text(self) ==
    LET range == Editor_get_selection_range(self)
    IN  IF range = None THEN Some(<<>>)
        ELSE
        LET start == range[1][1]
            end == range[1][2]
            lines == SimpleBuffer_all_lines(self.lines)
        IN  IF start.row >= Len(lines) \/ end.row >= Len(lines) THEN None
            ELSE IF start.row = end.row
            THEN LET line == lines[start.row + 1]
                     from == Min(start.col, str_len(line))
                     to == Min(end.col, str_len(line))
                 IN  IF ~is_char_boundary(line, from) \/ ~is_char_boundary(line, to)
                     THEN None
                     ELSE Some(SubSeq(line, char_index(line, from) + 1, char_index(line, to)))
            ELSE selected_text_from(lines, start.row, start, end, <<>>)

-----------------------------------------------------------------------------
(* The gap buffer as a state machine: construction, then any sequence of   *)
(* its public editing operations.                                          *)

Self == [buffer |-> buffer, gap_start |-> gap_start, gap_end |-> gap_end]

SetSelf(new) ==
    /\ buffer' = new.buffer
    /\ gap_start' = new.gap_start
    /\ gap_end' = new.gap_end
    /\ UNCHANGED evars

\* The object of a run is the one that was constructed: an Editor, whose
\* operations are recorded under these names, or a gap buffer.
EditorOps ==
    {"Editor::new", "Editor::set_cursor_position", "Editor::clear_selection",
     "Editor::update_buffer", "Editor::update_line", "Editor::move_left",
     "Editor::move_right", "Editor::move_up", "Editor::move_down",
     "Editor::select_all", "Editor::delete_selection", "Editor::insert_char",
     "Editor::insert_newline", "Editor::backspace", "Editor::delete",
     "Editor::get_selected_text", "Editor::get_selection_range"}

\* The gap buffer takes another editing operation.
GapTurn == last.op \notin EditorOps /\ nops < MaxOps

\* The Editor takes another operation: it has not panicked.
EditorTurn == last.op \in EditorOps /\ nops < MaxOps /\ ~failed

\* The object that is not the one of the run stays as constructed empty.
EditorUnbuilt ==
    /\ buffer_lines = Editor_new(<<>>).lines
    /\ cursor_position = Editor_new(<<>>).cursor_position
    /\ goal_column = Editor_new(<<>>).goal_column
    /\ selection_anchor = Editor_new(<<>>).selection_anchor
    /\ failed = Editor_new(<<>>).failed
    /\ syntax_highlighter = Editor_new(<<>>).syntax_highlighter
    /\ editor_language = Editor_new(<<>>).language
    /\ current_theme = Editor_new(<<>>).current_theme
    /\ config = Editor_new(<<>>).config
    /\ element_editor = None
    /\ view_cursor_position = CursorPosition(0, 0)

GapUnbuilt ==
    /\ buffer = GapBuffer_new.buffer
    /\ gap_start = GapBuffer_new.gap_start
    /\ gap_end = GapBuffer_new.gap_end

\* The record of an operation: its name, numeric arguments, text argument
\* and result r (for an editing operation, the content length before it).
Op(op, a, b, s, r) == [op |-> op, a |-> a, b |-> b, s |-> s, r |-> r]

\* Offsets, rows and columns handed to the operations: every position of a
\* text of MaxLen characters, and some beyond its end.
Pos == 0..(MaxLen + 1)

\* A text longer than the least gap: inserting it exhausts any fresh gap.
Fill == [i \in 1..(MinGap + 1) |-> "a"]

\* Texts handed to insert.
InsTexts == {<<>>, <<"E", NL>>, Fill}

\* Texts handed to from_text.  The editing operations of the gap buffer
\* treat every character alike, so two characters, one of them the newline,
\* stand for all.
InitTexts == StringsOver({"a", NL}, MaxLen)

\* Line lists handed to from_lines.
InitLines == {split(t) : t \in InitTexts} \cup {<<>>}

InitNew ==
    /\ buffer = GapBuffer_new.buffer
    /\ gap_start = GapBuffer_new.gap_start
    /\ gap_end = GapBuffer_new.gap_end
    /\ last = Op("new", 0, 0, <<>>, <<>>)

InitFromText ==
    \E t \in InitTexts :
        /\ buffer = GapBuffer_from_text(t).buffer
        /\ gap_start = GapBuffer_from_text(t).gap_start
        /\ gap_end = GapBuffer_from_text(t).gap_end
        /\ last = Op("from_text", 0, 0, t, <<>>)

InitFromLines ==
    \E ls \in InitLines :
        /\ buffer = GapBuffer_from_lines(ls).buffer
        /\ gap_start = GapBuffer_from_lines(ls).gap_start
        /\ gap_end = GapBuffer_from_lines(ls).gap_end
        /\ last = Op("from_text", 0, 0, join(ls), <<>>)

GapInit ==
    /\ nops = 0
    /\ EditorUnbuilt
    /\ (InitNew \/ InitFromText \/ InitFromLines)

MoveGapTo(o) ==
    /\ GapTurn
    /\ SetSelf(GapBuffer_move_gap_to(Self, o))
    /\ last' = Op("move_gap_to", o, 0, <<>>, <<GapBuffer_len(Self)>>)
    /\ nops' = nops + 1

InsertChar(ch) ==
    /\ GapTurn
    /\ SetSelf(GapBuffer_insert_char(Self, ch))
    /\ last' = Op("insert_char", 0, 0, <<ch>>, <<GapBuffer_len(Self)>>)
    /\ nops' = nops + 1

Insert(pos, text) ==
    /\ GapTurn
    /\ SetSelf(GapBuffer_insert(Self, pos, text))
    /\ last' = Op("insert", pos, 0, text, <<GapBuffer_len(Self)>>)
    /\ nops' = nops + 1

DeleteBackward ==
    /\ GapTurn
    /\ SetSelf(GapBuffer_delete_backward(Self))
    /\ last' = Op("delete_backward", 0, 0, <<>>, <<GapBuffer_len(Self)>>)
    /\ nops' = nops + 1

DeleteForward ==
    /\ GapTurn
    /\ SetSelf(GapBuffer_delete_forward(Self))
    /\ last' = Op("delete_forward", 0, 0, <<>>, <<GapBuffer_len(Self)>>)
    /\ nops' = nops + 1

DeleteRange(start, end) ==
    /\ GapTurn
    /\ SetSelf(GapBuffer_delete_range(Self, start, end))
    /\ last' = Op("delete_range", start, end, <<>>, <<GapBuffer_len(Self)>>)
    /\ nops' = nops + 1

GapNext ==
    \/ \E o \in Pos : MoveGapTo(o)
    \/ \E ch \in Chars : InsertChar(ch)
    \/ \E pos \in Pos, text \in InsTexts : Insert(pos, text)
    \/ DeleteBackward
    \/ DeleteForward
    \/ \E start \in Pos, end \in Pos : DeleteRange(start, end)

SpecGap == GapInit /\ [][GapNext]_vars

-----------------------------------------------------------------------------
(* Properties of the gap buffer, checked under SpecGap.                    *)

Text == GapBuffer_to_string(Self)

\* T with s put in at character offset p.
Spliced(T, p, s) == SubSeq(T, 1, p) \o s \o SubSeq(T, p + 1, Len(T))

\* T without the characters at offsets from..to-1.
Cut(T, from, to) == SubSeq(T, 1, from) \o SubSeq(T, to + 1, Len(T))

\* C1: in every reachable state of the gap buffer the gap lies inside the
\* buffer, 0 <= gap_start <= gap_end <= capacity, and len() (capacity minus
\* gap size) is the number of characters of to_string(), the region before
\* the gap followed by the region after it.
C1_GapInvariant ==
    /\ 0 <= gap_start
    /\ gap_start <= gap_end
    /\ gap_end <= Len(buffer)
    /\ GapBuffer_len(Self) = Len(GapBuffer_to_string(Self))
    /\ GapBuffer_to_string(Self)
         = [i \in 1..(gap_start + Len(buffer) - gap_end) |->
               IF i <= gap_start THEN buffer[i] ELSE buffer[gap_end + (i - gap_start)]]

\* A grown buffer whose gap, after a range deletion, lies inside the text.
C1_Witness ==
    /\ last.op = "delete_range"
    /\ Len(buffer) >= 2 * MinGap
    /\ 0 < gap_start
    /\ gap_end < Len(buffer)
    /\ GapBuffer_len(Self) < last.r[1]

\* C2: move_gap_to(offset) leaves to_string() unchanged and ends with
\* gap_start = min(offset, len()); an offset beyond the content behaves as
\* move_gap_to(len()); with offset = gap_start nothing changes at all.
C2_MoveGapPreservesContent ==
    [][last'.op = "move_gap_to" =>
          /\ GapBuffer_to_string(Self)' = GapBuffer_to_string(Self)
          /\ gap_start' = Min(last'.a, GapBuffer_len(Self))
          /\ gap_end' - gap_start' = gap_end - gap_start
          /\ (last'.a > GapBuffer_len(Self) =>
                Self' = GapBuffer_move_gap_to(Self, GapBuffer_len(Self)))
          /\ (last'.a = gap_start =>
                /\ buffer' = buffer
                /\ gap_start' = gap_start
                /\ gap_end' = gap_end)]_gvars

\* The gap has been moved from the end of a text into its middle.
C2_Witness ==
    /\ last.op = "move_gap_to"
    /\ 0 < gap_start
    /\ gap_start < GapBuffer_len(Self)
    /\ gap_start = last.a

\* C3: insert(pos, s) on content T yields T[0..p] ++ s ++ T[p..] with
\* p = min(pos, len(T)); len() grows by the number of characters of s and
\* gap_start ends at p + len(s), whether or not the gap has to grow.
C3_InsertSplices ==
    [][last'.op = "insert" =>
          LET T == GapBuffer_to_string(Self)
              p == Min(last'.a, Len(T))
              s == last'.s
          IN  /\ GapBuffer_to_string(Self)' = Spliced(T, p, s)
              /\ GapBuffer_len(Self)' = GapBuffer_len(Self) + Len(s)
              /\ gap_start' = p + Len(s)]_gvars

\* A text longer than the gap has been inserted in the middle of the
\* content as the first operation, so the buffer grew during the insertion.
C3_Witness ==
    /\ last.op = "insert"
    /\ nops = 1
    /\ last.s = Fill
    /\ 0 < last.a
    /\ gap_end < Len(buffer)
    /\ Len(buffer) > MinGap + MaxLen

\* C4: delete_backward removes exactly the character before gap_start when
\* gap_start > 0, delete_forward exactly the character after the gap when
\* text follows it; at offset 0 (backward) and at the end of the content
\* (forward) content and gap bounds stay as they are.
C4_DeleteOneChar ==
    [][/\ last'.op = "delete_backward" =>
            IF gap_start > 0
            THEN /\ GapBuffer_to_string(Self)' = Cut(Text, gap_start - 1, gap_start)
                 /\ gap_start' = gap_start - 1
                 /\ gap_end' = gap_end
            ELSE /\ GapBuffer_to_string(Self)' = Text
                 /\ gap_start' = gap_start
                 /\ gap_end' = gap_end
       /\ last'.op = "delete_forward" =>
            IF gap_start < GapBuffer_len(Self)
            THEN /\ GapBuffer_to_string(Self)' = Cut(Text, gap_start, gap_start + 1)
                 /\ gap_start' = gap_start
                 /\ gap_end' = gap_end + 1
            ELSE /\ GapBuffer_to_string(Self)' = Text
                 /\ gap_start' = gap_start
                 /\ gap_end' = gap_end]_gvars

\* A forward deletion inside the text has removed a character.
C4_Witness ==
    /\ last.op = "delete_forward"
    /\ 0 < gap_start
    /\ GapBuffer_len(Self) + 1 = last.r[1]

\* C5: delete_range(start, end) clamps both arguments to len(); an empty or
\* inverted range after clamping leaves the buffer as it is; otherwise the
\* content becomes T[0..start] ++ T[end..] and gap_start = start.
C5_DeleteRange ==
    [][last'.op = "delete_range" =>
          LET T == GapBuffer_to_string(Self)
              start == Min(last'.a, GapBuffer_len(Self))
              end == Min(last'.b, GapBuffer_len(Self))
          IN  IF start >= end
              THEN /\ buffer' = buffer
                   /\ gap_start' = gap_start
                   /\ gap_end' = gap_end
              ELSE /\ GapBuffer_to_string(Self)' = Cut(T, start, end)
                   /\ gap_start' = start]_gvars

\* A range reaching beyond the end has been cut out behind the first
\* character of the content.
C5_Witness ==
    /\ last.op = "delete_range"
    /\ 0 < last.a
    /\ last.b > last.r[1]
    /\ GapBuffer_len(Self) = last.a
    /\ GapBuffer_len(Self) < last.r[1]

\* The number of newlines that end the text t.
TrailingNewlines(t) ==
    CHOOSE k \in 0..Len(t) :
        /\ \A i \in (Len(t) - k + 1)..Len(t) : t[i] = NL
        /\ (k < Len(t) => t[Len(t) - k] # NL)

\* C6: from_text(t).to_string() = t; to_lines() is never empty and joined
\* with newlines it is to_string(), so content ending in k newlines has k
\* empty lines at its end and empty content is one empty line.
C6_LinesRoundTrip ==
    LET lines == GapBuffer_to_lines(Self)
        k == TrailingNewlines(Text)
    IN  /\ last.op = "from_text" => Text = last.s
        /\ Len(lines) >= 1
        /\ join(lines) = Text
        /\ Len(lines) > k
        /\ \A i \in (Len(lines) - k + 1)..Len(lines) : lines[i] = <<>>
        /\ (Text = <<>> => lines = << <<>> >>)

\* An edit has left content that ends in two newlines after a character.
C6_Witness ==
    /\ nops > 0
    /\ TrailingNewlines(Text) = 2
    /\ Len(Text) > 2

-----------------------------------------------------------------------------
(* The Editor as a state machine: Editor::new, then any sequence of its    *)
(* public operations, until one of them panics.                            *)

EditorSelf ==
    [lines |-> buffer_lines,
     cursor_position |-> cursor_position,
     goal_column |-> goal_column,
     selection_anchor |-> selection_anchor,
     failed |-> failed,
     syntax_highlighter |-> syntax_highlighter,
     language |-> editor_language,
     current_theme |-> current_theme,
     config |-> config]

SetEditor(new) ==
    /\ buffer_lines' = new.lines
    /\ cursor_position' = new.cursor_position
    /\ goal_column' = new.goal_column
    /\ selection_anchor' = new.selection_anchor
    /\ failed' = new.failed
    /\ syntax_highlighter' = new.syntax_highlighter
    /\ editor_language' = new.language
    /\ current_theme' = new.current_theme
    /\ config' = new.config
    /\ UNCHANGED <<buffer, gap_start, gap_end, element_editor, view_cursor_position>>

\* An operation of the Editor: `last` keeps its name, its arguments and the
\* editor value it was applied to.
EditorOp(op, a, b, s, new) ==
    /\ SetEditor(new)
    /\ last' = Op(op, a, b, s, EditorSelf)
    /\ nops' = nops + 1

\* Line lists handed to update_buffer, and contents handed to update_line.
UpdateBufferLines == {<<>>, << <<"a", "E">> >>, << <<>>, <<"a">> >>}
UpdateLineContents == {<<>>, <<"E", "a">>}

\* The Editor is the one Editor::new makes of the lines ls.
EditorBuilt(ls) ==
    /\ buffer_lines = Editor_new(ls).lines
    /\ cursor_position = Editor_new(ls).cursor_position
    /\ goal_column = Editor_new(ls).goal_column
    /\ selection_anchor = Editor_new(ls).selection_anchor
    /\ failed = Editor_new(ls).failed
    /\ syntax_highlighter = Editor_new(ls).syntax_highlighter
    /\ editor_language = Editor_new(ls).language
    /\ current_theme = Editor_new(ls).current_theme
    /\ config = Editor_new(ls).config
    /\ element_editor = None
    /\ view_cursor_position = CursorPosition(0, 0)

EditorInit ==
    /\ nops = 0
    /\ GapUnbuilt
    /\ \E ls \in InitLines :
        /\ EditorBuilt(ls)
        /\ last = Op("Editor::new", 0, 0, ls, <<>>)

SetCursorPosition(row, col) ==
    /\ EditorTurn
    /\ EditorOp("Editor::set_cursor_position", row, col, <<>>,
                Editor_set_cursor_position(EditorSelf, CursorPosition(row, col)))

ClearSelection ==
    /\ EditorTurn
    /\ EditorOp("Editor::clear_selection", 0, 0, <<>>, Editor_clear_selection(EditorSelf))

UpdateBuffer(ls) ==
    /\ EditorTurn
    /\ EditorOp("Editor::update_buffer", 0, 0, ls, Editor_update_buffer(EditorSelf, ls))

UpdateLine(line_index, new_content) ==
    /\ EditorTurn
    /\ EditorOp("Editor::update_line", line_index, 0, new_content,
                Editor_update_line(EditorSelf, line_index, new_content))

MoveLeft(shift_held) ==
    /\ EditorTurn
    /\ EditorOp("Editor::move_left", shift_held, 0, <<>>, Editor_move_left(EditorSelf, shift_held))

MoveRight(shift_held) ==
    /\ EditorTurn
    /\ EditorOp("Editor::move_right", shift_held, 0, <<>>, Editor_move_right(EditorSelf, shift_held))

MoveUp(shift_held) ==
    /\ EditorTurn
    /\ EditorOp("Editor::move_up", shift_held, 0, <<>>, Editor_move_up(EditorSelf, shift_held))

MoveDown(shift_held) ==
    /\ EditorTurn
    /\ EditorOp("Editor::move_down", shift_held, 0, <<>>, Editor_move_down(EditorSelf, shift_held))

SelectAll ==
    /\ EditorTurn
    /\ EditorOp("Editor::select_all", 0, 0, <<>>, Editor_select_all(EditorSelf))

DeleteSelection ==
    /\ EditorTurn
    /\ EditorOp("Editor::delete_selection", 0, 0, <<>>, Editor_delete_selection(EditorSelf))

EditorInsertChar(ch) ==
    /\ EditorTurn
    /\ EditorOp("Editor::insert_char", 0, 0, <<ch>>, Editor_insert_char(EditorSelf, ch))

EditorInsertNewline ==
    /\ EditorTurn
    /\ EditorOp("Editor::insert_newline", 0, 0, <<>>, Editor_insert_newline(EditorSelf))

EditorBackspace ==
    /\ EditorTurn
    /\ EditorOp("Editor::backspace", 0, 0, <<>>, Editor_backspace(EditorSelf))

EditorDelete ==
    /\ EditorTurn
    /\ EditorOp("Editor::delete", 0, 0, <<>>, Editor_delete(EditorSelf))

\* get_selected_text takes &self: it changes nothing unless it panics.
GetSelectedText ==
    /\ EditorTurn
    /\ LET text == Editor_get_selected_text(EditorSelf)
       IN  /\ SetEditor(IF text = None THEN Panic(EditorSelf) ELSE EditorSelf)
           /\ last' = Op("Editor::get_selected_text", 0, 0,
                         IF text = None THEN <<>> ELSE text[1], EditorSelf)
    /\ nops' = nops + 1

EditorNext ==
    \/ \E row \in Pos, col \in Pos : SetCursorPosition(row, col)
    \/ ClearSelection
    \/ \E ls \in UpdateBufferLines : UpdateBuffer(ls)
    \/ \E i \in Pos, content \in UpdateLineContents : UpdateLine(i, content)
    \/ \E shift_held \in BOOLEAN : MoveLeft(shift_held)
    \/ \E shift_held \in BOOLEAN : MoveRight(shift_held)
    \/ \E shift_held \in BOOLEAN : MoveUp(shift_held)
    \/ \E shift_held \in BOOLEAN : MoveDown(shift_held)
    \/ SelectAll
    \/ DeleteSelection
    \/ \E ch \in Chars : EditorInsertChar(ch)
    \/ EditorInsertNewline
    \/ EditorBackspace
    \/ EditorDelete
    \/ GetSelectedText

SpecEditor == EditorInit /\ [][EditorNext]_vars

-----------------------------------------------------------------------------
(* Either document: a gap buffer under its editing operations, or an       *)
(* Editor under its public operations.                                     *)

DocInit == GapInit \/ EditorInit

DocNext == GapNext \/ EditorNext

SpecDoc == DocInit /\ [][DocNext]_vars

\* C7: after any sequence of public operations the document has at least
\* one line, and line_count() is the number of lines all_lines() returns:
\* for the gap buffer under its editing operations, and for the buffer of
\* the Editor under its operations, update_buffer with an empty line list
\* and the deletion of a selection of the whole document among them.
C7_AtLeastOneLine ==
    /\ GapBuffer_line_count(Self) >= 1
    /\ GapBuffer_line_count(Self) = Len(GapBuffer_all_lines(Self))
    /\ SimpleBuffer_line_count(buffer_lines) >= 1
    /\ SimpleBuffer_line_count(buffer_lines) = Len(SimpleBuffer_all_lines(buffer_lines))

\* The selection of a whole document of several lines has been deleted.
C7_Witness ==
    /\ last.op = "Editor::delete_selection"
    /\ Len(last.r.lines) >= 2
    /\ last.r.selection_anchor = Some(CursorPosition(0, 0))
    /\ last.r.cursor_position
         = CursorPosition(Len(last.r.lines) - 1,
                          str_len(last.r.lines[Len(last.r.lines)]))
    /\ ~failed
    /\ buffer_lines = << <<>> >>

-----------------------------------------------------------------------------
(* The row/column conversions of the gap buffer: a buffer built from any   *)
(* text, its gap moved anywhere, and the two conversions applied to it.    *)

\* Texts whose positions are converted: every character width occurs.
ConvTexts == StringsOver(Chars, MaxLen)

\* Rows handed to cursor_to_position: every row of a text, and some beyond.
ConvRows == 0..(MaxLen + 1)

\* Columns and offsets handed to the conversions: every byte offset of a
\* text, and some beyond.
ConvCols == 0..(2 * MaxLen + 1)

ConvInit ==
    /\ nops = 0
    /\ EditorUnbuilt
    /\ \E t \in ConvTexts :
        /\ buffer = GapBuffer_from_text(t).buffer
        /\ gap_start = GapBuffer_from_text(t).gap_start
        /\ gap_end = GapBuffer_from_text(t).gap_end
        /\ last = Op("from_text", 0, 0, t, <<>>)

ConvMoveGapTo(o) ==
    /\ SetSelf(GapBuffer_move_gap_to(Self, o))
    /\ last' = Op("move_gap_to", o, 0, <<>>, <<GapBuffer_len(Self)>>)
    /\ UNCHANGED nops

CursorToPosition(row, col) ==
    /\ last' = Op("cursor_to_position", row, col, <<>>,
                  <<GapBuffer_cursor_to_position(Self, row, col)>>)
    /\ UNCHANGED <<buffer, gap_start, gap_end, nops>>
    /\ UNCHANGED evars

PositionToCursor(pos) ==
    /\ last' = Op("position_to_cursor", pos, 0, <<>>,
                  GapBuffer_position_to_cursor(Self, pos))
    /\ UNCHANGED <<buffer, gap_start, gap_end, nops>>
    /\ UNCHANGED evars

ConvNext ==
    \/ \E o \in ConvRows : ConvMoveGapTo(o)
    \/ \E row \in ConvRows, col \in ConvCols : CursorToPosition(row, col)
    \/ \E pos \in ConvCols : PositionToCursor(pos)

SpecConv == ConvInit /\ [][ConvNext]_vars

-----------------------------------------------------------------------------
(* Properties of the conversions, checked under SpecConv.                  *)

\* The number of characters before column col of row `row` of the lines:
\* the rows before it with one newline each, and col characters of the row.
RECURSIVE CharsBefore(_, _, _)
CharsBefore(lines, row, col) ==
    IF row = 0 THEN col
    ELSE Len(lines[1]) + 1 + CharsBefore(Tail(lines), row - 1, col)

C9_CursorToPosition ==
    last.op = "cursor_to_position" =>
        LET lines == GapBuffer_to_lines(Self)
            n == GapBuffer_line_count(Self)
            row == Min(last.a, n - 1)
            col == Min(last.b, Len(lines[row + 1]))
        IN  /\ last.r[1] = CharsBefore(lines, row, col)
            /\ (last.a >= n =>
                  last.r[1] = GapBuffer_cursor_to_position(Self, n - 1, last.b))

\* C10: position_to_cursor inverts cursor_to_position; an offset beyond the
\* document length gives (last row, length of the last row); the offset at
\* which a row starts gives column 0 of that row.
C10_PositionToCursor ==
    last.op = "position_to_cursor" =>
        LET n == GapBuffer_line_count(Self)
            doc_len == GapBuffer_len(Self)
        IN  /\ GapBuffer_cursor_to_position(Self, last.r[1], last.r[2])
                 = Min(last.a, doc_len)
            /\ (last.a > doc_len =>
                  last.r = <<n - 1, GapBuffer_line_len(Self, n - 1)>>)
            /\ \A r \in 1..(n - 1) :
                  last.a = GapBuffer_cursor_to_position(Self, r, 0) =>
                      last.r = <<r, 0>>

-----------------------------------------------------------------------------
(* Properties of the Editor, checked under SpecEditor.                     *)

\* C11: in every state the Editor reaches by its public operations the
\* cursor lies in the document: row < line_count() and
\* col <= line_len(row).
C11_CursorInDocument ==
    ~failed =>
        /\ cursor_position.row < SimpleBuffer_line_count(buffer_lines)
        /\ cursor_position.col
             <= SimpleBuffer_line_len(buffer_lines, cursor_position.row)

\* C12: no sequence of public operations of the Editor ends in a panic.
C12_NoFailure == ~failed

-----------------------------------------------------------------------------
(* The TextBuffer capability set on both implementations: a SimpleBuffer   *)
(* and a GapBuffer are built from the same text or line list and take the  *)
(* same calls, until a call panics.                                        *)

TextBufferOps ==
    {"TextBuffer::from_text", "TextBuffer::from_lines", "TextBuffer::line_count",
     "TextBuffer::get_line", "TextBuffer::line_len", "TextBuffer::all_lines",
     "TextBuffer::insert_at", "TextBuffer::delete_at", "TextBuffer::backspace_at"}

TextBufferTurn == last.op \in TextBufferOps /\ nops < MaxOps /\ ~failed

\* The fields of the Editor other than the lines of its buffer are not
\* part of a SimpleBuffer.
NoEditor ==
    /\ cursor_position = Editor_new(<<>>).cursor_position
    /\ goal_column = Editor_new(<<>>).goal_column
    /\ selection_anchor = Editor_new(<<>>).selection_anchor
    /\ syntax_highlighter = Editor_new(<<>>).syntax_highlighter
    /\ editor_language = Editor_new(<<>>).language
    /\ current_theme = Editor_new(<<>>).current_theme
    /\ config = Editor_new(<<>>).config
    /\ element_editor = None
    /\ view_cursor_position = CursorPosition(0, 0)

TextBufferInit ==
    /\ nops = 0
    /\ NoEditor
    /\ failed = FALSE
    /\ \/ \E t \in InitTexts :
            /\ buffer_lines = SimpleBuffer_from_text(t)
            /\ buffer = GapBuffer_from_text(t).buffer
            /\ gap_start = GapBuffer_from_text(t).gap_start
            /\ gap_end = GapBuffer_from_text(t).gap_end
            /\ last = Op("TextBuffer::from_text", 0, 0, t, <<>>)
       \/ \E ls \in InitLines :
            /\ buffer_lines = SimpleBuffer_new(ls)
            /\ buffer = GapBuffer_from_lines(ls).buffer
            /\ gap_start = GapBuffer_from_lines(ls).gap_start
            /\ gap_end = GapBuffer_from_lines(ls).gap_end
            /\ last = Op("TextBuffer::from_lines", 0, 0, ls, <<>>)

\* A call that reads: both outcomes are kept in `last`, Some(result) or
\* None for a panic, and neither buffer changes.
TextBufferQuery(op, a, simple, gap) ==
    /\ last' = Op(op, a, 0, <<>>, [simple |-> simple, gap |-> gap])
    /\ failed' = (simple = None \/ gap = None)
    /\ nops' = nops + 1
    /\ UNCHANGED <<buffer, gap_start, gap_end, buffer_lines,
                   cursor_position, goal_column, selection_anchor,
                   syntax_highlighter, editor_language, current_theme, config,
                   element_editor, view_cursor_position>>

\* A call that edits: it is applied to both buffers.
TextBufferEdit(op, row, col, text, simple, gap) ==
    /\ last' = Op(op, row, col, text, [lines |-> buffer_lines, self |-> Self])
    /\ buffer_lines' = simple.lines
    /\ failed' = simple.failed
    /\ buffer' = gap.buffer
    /\ gap_start' = gap.gap_start
    /\ gap_end' = gap.gap_end
    /\ nops' = nops + 1
    /\ UNCHANGED <<cursor_position, goal_column, selection_anchor,
                   syntax_highlighter, editor_language, current_theme, config,
                   element_editor, view_cursor_position>>

LineCount ==
    /\ TextBufferTurn
    /\ TextBufferQuery("TextBuffer::line_count", 0,
                       Some(SimpleBuffer_line_count(buffer_lines)),
                       Some(GapBuffer_line_count(Self)))

GetLine(line_idx) ==
    /\ TextBufferTurn
    /\ TextBufferQuery("TextBuffer::get_line", line_idx,
                       Some(SimpleBuffer_get_line(buffer_lines, line_idx)),
                       GapBuffer_get_line(Self, line_idx))

LineLen(line_idx) ==
    /\ TextBufferTurn
    /\ TextBufferQuery("TextBuffer::line_len", line_idx,
                       Some(SimpleBuffer_line_len(buffer_lines, line_idx)),
                       Some(GapBuffer_line_len(Self, line_idx)))

AllLines ==
    /\ TextBufferTurn
    /\ TextBufferQuery("TextBuffer::all_lines", 0,
                       Some(SimpleBuffer_all_lines(buffer_lines)),
                       Some(GapBuffer_all_lines(Self)))

InsertAt(row, col, text) ==
    /\ TextBufferTurn
    /\ TextBufferEdit("TextBuffer::insert_at", row, col, text,
                      SimpleBuffer_insert_at(buffer_lines, row, col, text),
                      GapBuffer_insert_at(Self, row, col, text))

DeleteAt(row, col) ==
    /\ TextBufferTurn
    /\ TextBufferEdit("TextBuffer::delete_at", row, col, <<>>,
                      SimpleBuffer_delete_at(buffer_lines, row, col),
                      GapBuffer_delete_at(Self, row, col))

BackspaceAt(row, col) ==
    /\ TextBufferTurn
    /\ TextBufferEdit("TextBuffer::backspace_at", row, col, <<>>,
                      SimpleBuffer_backspace_at(buffer_lines, row, col),
                      GapBuffer_backspace_at(Self, row, col))

\* Texts handed to insert_at: without and with newlines.
InsertAtTexts == {<<"a">>, <<"E", NL>>}

TextBufferNext ==
    \/ LineCount
    \/ \E i \in Pos : GetLine(i)
    \/ \E i \in Pos : LineLen(i)
    \/ AllLines
    \/ \E row \in Pos, col \in Pos, text \in InsertAtTexts : InsertAt(row, col, text)
    \/ \E row \in Pos, col \in Pos : DeleteAt(row, col)
    \/ \E row \in Pos, col \in Pos : BackspaceAt(row, col)

SpecTextBuffer == TextBufferInit /\ [][TextBufferNext]_vars

\* C13: every call of the TextBuffer capability set, on the SimpleBuffer
\* and on the GapBuffer and for every row and column, completes without a
\* panic; line_len of a row beyond the last row is 0 on both.
C13_TextBufferTotal ==
    /\ ~failed
    /\ (last.op = "TextBuffer::line_len" /\ last.a >= GapBuffer_line_count(Self)
          /\ last.a >= SimpleBuffer_line_count(buffer_lines)) =>
            (last.r.simple = Some(0) /\ last.r.gap = Some(0))

-----------------------------------------------------------------------------
(* Cursor movement: an Editor over a document of rows of several lengths,  *)
(* its cursor placed anywhere, then a run of moves, which one editing      *)
(* operation or get_selected_text may end.                                 *)

\* Longest run of operations explored: the placement, the moves and the
\* operation that ends the run.
MaxMoves == 5

\* Documents walked through: rows of lengths 2, 0 and 1; a row with a
\* two-byte character before a longer row; the empty document.
MoveLines ==
    { << <<"a", "a">>, <<>>, <<"a">> >>,
      << <<"E">>, <<"a", "a", "a">> >>,
      << <<>> >> }

\* The operations that move the cursor or select: a run goes on after
\* them.
WalkOps ==
    {"Editor::new", "Editor::set_cursor_position", "Editor::select_all",
     "Editor::move_left", "Editor::move_right", "Editor::move_up", "Editor::move_down"}

MoveTurn == last.op \in WalkOps /\ nops < MaxMoves /\ ~failed

MoveInit ==
    /\ nops = 0
    /\ GapUnbuilt
    /\ \E ls \in MoveLines :
        /\ EditorBuilt(ls)
        /\ last = Op("Editor::new", 0, 0, ls, <<>>)

\* set_cursor_position as the first operation of the run.
PlaceCursor(row, col) ==
    /\ MoveTurn
    /\ nops = 0
    /\ EditorOp("Editor::set_cursor_position", row, col, <<>>,
                Editor_set_cursor_position(EditorSelf, CursorPosition(row, col)))

WalkLeft(shift_held) ==
    /\ MoveTurn
    /\ EditorOp("Editor::move_left", shift_held, 0, <<>>, Editor_move_left(EditorSelf, shift_held))

WalkRight(shift_held) ==
    /\ MoveTurn
    /\ EditorOp("Editor::move_right", shift_held, 0, <<>>, Editor_move_right(EditorSelf, shift_held))

WalkUp(shift_held) ==
    /\ MoveTurn
    /\ EditorOp("Editor::move_up", shift_held, 0, <<>>, Editor_move_up(EditorSelf, shift_held))

WalkDown(shift_held) ==
    /\ MoveTurn
    /\ EditorOp("Editor::move_down", shift_held, 0, <<>>, Editor_move_down(EditorSelf, shift_held))

WalkSelectAll ==
    /\ MoveTurn
    /\ EditorOp("Editor::select_all", 0, 0, <<>>, Editor_select_all(EditorSelf))

\* The operations that end a run.
FinalDeleteSelection ==
    /\ MoveTurn
    /\ EditorOp("Editor::delete_selection", 0, 0, <<>>, Editor_delete_selection(EditorSelf))

FinalInsertChar(ch) ==
    /\ MoveTurn
    /\ EditorOp("Editor::insert_char", 0, 0, <<ch>>, Editor_insert_char(EditorSelf, ch))

FinalInsertNewline ==
    /\ MoveTurn
    /\ EditorOp("Editor::insert_newline", 0, 0, <<>>, Editor_insert_newline(EditorSelf))

FinalBackspace ==
    /\ MoveTurn
    /\ EditorOp("Editor::backspace", 0, 0, <<>>, Editor_backspace(EditorSelf))

FinalDelete ==
    /\ MoveTurn
    /\ EditorOp("Editor::delete", 0, 0, <<>>, Editor_delete(EditorSelf))

FinalGetSelectedText ==
    /\ MoveTurn
    /\ LET text == Editor_get_selected_text(EditorSelf)
       IN  /\ SetEditor(IF text = None THEN Panic(EditorSelf) ELSE EditorSelf)
           /\ last' = Op("Editor::get_selected_text", 0, 0,
                         IF text = None THEN <<>> ELSE text[1], EditorSelf)
    /\ nops' = nops + 1

FinalGetSelectionRange ==
    /\ MoveTurn
    /\ EditorOp("Editor::get_selection_range", 0, 0,
                Editor_get_selection_range(EditorSelf), EditorSelf)

MoveNext ==
    \/ \E row \in Pos, col \in Pos : PlaceCursor(row, col)
    \/ \E shift_held \in BOOLEAN : WalkLeft(shift_held)
    \/ \E shift_held \in BOOLEAN : WalkRight(shift_held)
    \/ \E shift_held \in BOOLEAN : WalkUp(shift_held)
    \/ \E shift_held \in BOOLEAN : WalkDown(shift_held)
    \/ WalkSelectAll
    \/ FinalDeleteSelection
    \/ \E ch \in Chars : FinalInsertChar(ch)
    \/ FinalInsertNewline
    \/ FinalBackspace
    \/ FinalDelete
    \/ FinalGetSelectedText
    \/ FinalGetSelectionRange

SpecMove == MoveInit /\ [][MoveNext]_vars

\* The last row of the lines, and the length of a row as the Editor
\* measures it.
LastRow(lines) == Len(lines) - 1
RowLen(lines, row) == SimpleBuffer_line_len(lines, row)

Moves == {"Editor::move_left", "Editor::move_right", "Editor::move_up", "Editor::move_down"}

\* C15: each of the four moves, called with the modifier held and no
\* anchor, makes the cursor position from before the move the anchor;
\* with the modifier held and an anchor present it keeps the anchor;
\* without the modifier it clears the anchor.
C15_MoveAnchor ==
    last.op \in Moves =>
        LET pre == last.r
            shift_held == last.a
        IN  /\ (shift_held /\ pre.selection_anchor = None) =>
                  selection_anchor = Some(pre.cursor_position)
            /\ (shift_held /\ pre.selection_anchor # None) =>
                  selection_anchor = pre.selection_anchor
            /\ ~shift_held => selection_anchor = None

\* A move with the modifier held has left an anchor in place that is
\* neither the cursor from before the move nor the cursor after it.
C15_Witness ==
    /\ last.op \in Moves
    /\ last.a
    /\ selection_anchor # None
    /\ selection_anchor = last.r.selection_anchor
    /\ selection_anchor # Some(last.r.cursor_position)
    /\ selection_anchor # Some(cursor_position)

\* A vertical move takes effect: move_up below the first row, move_down
\* above the last row.
TakesEffect(op, pre) ==
    IF op = "Editor::move_up" THEN pre.cursor_position.row > 0
    ELSE pre.cursor_position.row < LastRow(pre.lines)

-----------------------------------------------------------------------------
(* Further properties of the Editor, checked under SpecEditor.             *)

\* The operations after which the goal column is to be unset.
GoalResetting ==
    {"Editor::move_left", "Editor::move_right", "Editor::insert_char",
     "Editor::insert_newline", "Editor::backspace", "Editor::delete",
     "Editor::update_line", "Editor::update_buffer",
     "Editor::set_cursor_position", "Editor::clear_selection", "Editor::select_all"}

\* C17: the goal column is unset after every horizontal move, every edit
\* (a delete_selection that removes a selection, update_line and
\* update_buffer among them), set_cursor_position, clear_selection and
\* select_all.
C17_GoalColumnReset ==
    (/\ ~failed
     /\ \/ last.op \in GoalResetting
        \/ (last.op = "Editor::delete_selection" /\ last.r.selection_anchor # None))
        => goal_column = None

\* The whole document is selected in the editor value e: the anchor is at
\* (0,0) and the cursor at the end of the last row.
AllSelected(e) ==
    /\ e.selection_anchor = Some(CursorPosition(0, 0))
    /\ e.cursor_position
         = CursorPosition(LastRow(e.lines), RowLen(e.lines, LastRow(e.lines)))

Before(p, q) == p.row < q.row \/ (p.row = q.row /\ p.col < q.col)

\* The start and the end of the selection of the editor value e.
SelectionStart(e) ==
    IF Before(e.selection_anchor[1], e.cursor_position)
    THEN e.selection_anchor[1] ELSE e.cursor_position

SelectionEnd(e) ==
    IF Before(e.selection_anchor[1], e.cursor_position)
    THEN e.cursor_position ELSE e.selection_anchor[1]

\* The text of a row before and from a column of it, a column beyond the
\* end of the row counting as its end.
RowBefore(lines, p) == str_to(lines[p.row + 1], Min(p.col, RowLen(lines, p.row)))
RowFrom(lines, p) == str_from(lines[p.row + 1], Min(p.col, RowLen(lines, p.row)))

\* The lines with the rows first..last replaced by the rows `rows`.
WithRows(lines, first, last_, rows) ==
    SubSeq(lines, 1, first) \o rows \o SubSeq(lines, last_ + 2, Len(lines))

\* C19: insert_char and insert_newline with a selection (start, end) give
\* the text before start, the inserted content, and the text after end;
\* the anchor is cleared and the cursor is (start.row, start.col + 1)
\* after a character and (start.row + 1, 0) after a newline.  Checked
\* under SpecMove, whose runs select with shifted moves before they edit.
C19_InsertReplacesSelection ==
    (/\ last.op \in {"Editor::insert_char", "Editor::insert_newline"}
     /\ last.r.selection_anchor # None
     /\ ~failed) =>
        LET pre == last.r
            start == SelectionStart(pre)
            end == SelectionEnd(pre)
            head == RowBefore(pre.lines, start)
            tail == RowFrom(pre.lines, end)
        IN  /\ selection_anchor = None
            /\ IF last.op = "Editor::insert_char"
               THEN /\ buffer_lines
                         = WithRows(pre.lines, start.row, end.row, <<head \o last.s \o tail>>)
                    /\ cursor_position = CursorPosition(start.row, start.col + 1)
               ELSE /\ buffer_lines
                         = WithRows(pre.lines, start.row, end.row, <<head, tail>>)
                    /\ cursor_position = CursorPosition(start.row + 1, 0)

\* C20: with a selection, backspace and delete do exactly what
\* delete_selection does: the selected range is removed, the cursor is at
\* the selection start, the anchor is cleared, and no other character is
\* removed.  Checked under SpecMove.
C20_DeleteKeysDeleteSelection ==
    (/\ last.op \in {"Editor::backspace", "Editor::delete"}
     /\ last.r.selection_anchor # None) =>
        LET pre == last.r
            start == SelectionStart(pre)
            end == SelectionEnd(pre)
        IN  /\ EditorSelf = Editor_delete_selection(pre)
            /\ ~failed =>
                  /\ buffer_lines
                       = WithRows(pre.lines, start.row, end.row,
                                  <<RowBefore(pre.lines, start) \o RowFrom(pre.lines, end)>>)
                  /\ cursor_position = start
                  /\ selection_anchor = None

\* backspace has removed a selection inside one row that had text before
\* it and after it.
C20_Witness ==
    /\ last.op = "Editor::backspace"
    /\ last.r.selection_anchor # None
    /\ ~failed
    /\ LET pre == last.r
           start == SelectionStart(pre)
           end == SelectionEnd(pre)
       IN  /\ start.row = end.row
           /\ start.col > 0
           /\ end.col > start.col
           /\ end.col < RowLen(pre.lines, end.row)
           /\ RowLen(buffer_lines, start.row) = RowLen(pre.lines, start.row) - (end.col - start.col)

\* The string s without its character number i (from 1).
WithoutChar(s, i) == SubSeq(s, 1, i - 1) \o SubSeq(s, i + 1, Len(s))

\* The characters of s that end, and that start, at the byte column col.
CharsEndingAt(s, col) == {i \in 1..Len(s) : str_len_range(s, 1, i) = col}
CharsStartingAt(s, col) == {i \in 1..Len(s) : str_len_range(s, 1, i - 1) = col}

\* C21: without a selection, backspace at a column > 0 removes the
\* character before the cursor and decrements the column, at column 0 of a
\* row that is not the first joins the row onto the row before with the
\* cursor at that row's former length, and at (0,0) changes nothing; delete
\* removes the character at the cursor, or at the end of a row that is not
\* the last joins the next row onto it, or at the end of the document
\* changes nothing, and never moves the cursor.  Checked under SpecMove.
C21_BackspaceDelete ==
    (/\ last.op \in {"Editor::backspace", "Editor::delete"}
     /\ last.r.selection_anchor = None
     /\ last.r.cursor_position.row < Len(last.r.lines)) =>
        LET pre == last.r
            cur == pre.cursor_position
            line == pre.lines[cur.row + 1]
        IN  /\ ~failed
            /\ selection_anchor = None
            /\ IF last.op = "Editor::backspace"
               THEN IF cur.col > 0
                    THEN /\ \E i \in CharsEndingAt(line, cur.col) :
                               buffer_lines = Vec_set(pre.lines, cur.row, WithoutChar(line, i))
                         /\ cursor_position = CursorPosition(cur.row, cur.col - 1)
                    ELSE IF cur.row > 0
                    THEN /\ buffer_lines
                              = WithRows(pre.lines, cur.row - 1, cur.row,
                                         <<pre.lines[cur.row] \o line>>)
                         /\ cursor_position
                              = CursorPosition(cur.row - 1, RowLen(pre.lines, cur.row - 1))
                    ELSE /\ buffer_lines = pre.lines
                         /\ cursor_position = cur
               ELSE /\ cursor_position = cur
                    /\ IF cur.col < RowLen(pre.lines, cur.row)
                       THEN \E i \in CharsStartingAt(line, cur.col) :
                               buffer_lines = Vec_set(pre.lines, cur.row, WithoutChar(line, i))
                       ELSE IF cur.row < LastRow(pre.lines)
                       THEN buffer_lines
                              = WithRows(pre.lines, cur.row, cur.row + 1,
                                         <<line \o pre.lines[cur.row + 2]>>)
                       ELSE buffer_lines = pre.lines

\* C22: with an anchor, get_selection_range returns (start, end), the
\* anchor and the cursor with the one that comes first in document order
\* (row, then column) as start; it returns nothing exactly when there is
\* no anchor.  Checked under SpecMove.
C22_SelectionRangeOrdered ==
    last.op = "Editor::get_selection_range" =>
        LET pre == last.r
            range == last.s
        IN  /\ EditorSelf = pre
            /\ range = None <=> pre.selection_anchor = None
            /\ range # None =>
                LET start == range[1][1]
                    end == range[1][2]
                    anchor == pre.selection_anchor[1]
                IN  /\ ~Before(end, start)
                    /\ \/ start = anchor /\ end = pre.cursor_position
                       \/ start = pre.cursor_position /\ end = anchor

\* The range of a selection whose anchor is in a row after the cursor's
\* starts at the cursor.
C22_Witness ==
    /\ last.op = "Editor::get_selection_range"
    /\ last.r.selection_anchor # None
    /\ last.r.selection_anchor[1].row > last.r.cursor_position.row
    /\ last.s = Some(<<last.r.cursor_position, last.r.selection_anchor[1]>>)

\* The byte offset of position p of the lines in their newline-joined
\* text, a column beyond the end of the row counting as its end.
LinearOffset(lines, p) ==
    str_len(join(SubSeq(lines, 1, p.row))) + (IF p.row > 0 THEN 1 ELSE 0)
        + Min(p.col, RowLen(lines, p.row))

\* The characters of s that lie between the byte offsets from and to.
Stretch(s, from, to) ==
    LET first == CHOOSE i \in 0..Len(s) :
                     /\ str_len_range(s, 1, i) >= from
                     /\ \A j \in 0..(i - 1) : str_len_range(s, 1, j) < from
        last_ == CHOOSE i \in 0..Len(s) :
                     /\ str_len_range(s, 1, i) <= to
                     /\ \A j \in (i + 1)..Len(s) : str_len_range(s, 1, j) > to
    IN  SubSeq(s, first + 1, last_)

\* C23: get_selected_text is the stretch of the newline-joined document
\* between the linear offsets of the selection's start and end, and is
\* empty without an anchor.  Checked under SpecMove.
C23_SelectedText ==
    last.op = "Editor::get_selected_text" =>
        LET pre == last.r
        IN  IF pre.selection_anchor = None
            THEN ~failed /\ last.s = <<>>
            ELSE (SelectionEnd(pre).row < Len(pre.lines)) =>
                    /\ ~failed
                    /\ last.s = Stretch(join(pre.lines),
                                        LinearOffset(pre.lines, SelectionStart(pre)),
                                        LinearOffset(pre.lines, SelectionEnd(pre)))

-----------------------------------------------------------------------------
(* Highlighting: an Editor whose lines are highlighted, edited and         *)
(* replaced, and whose language and theme are set, in any order.           *)

\* Longest run of calls explored after construction.
MaxCalls == 3

\* The document the Editor is made of, the lines handed to highlight_line
\* and their line numbers, and the names handed to set_language and
\* set_theme, one of each unknown to the library.
HighlightDocument == << <<"a">>, <<Quote, "a">>, <<"E">> >>
HighlightLines == {<<>>, <<Quote>>, <<"E", Quote, "a">>}
LineNumbers == 0..2
LanguageNames == KnownSyntaxes \cup {"Klingon"}
ThemeNames == KnownThemes \cup {"Nord"}

HighlightOps ==
    {"Editor::new", "Editor::highlight_line", "Editor::set_language",
     "Editor::set_theme", "Editor::set_cursor_position", "Editor::select_all",
     "Editor::update_buffer", "Editor::update_line", "Editor::delete_selection",
     "Editor::insert_char", "Editor::insert_newline", "Editor::backspace",
     "Editor::delete"}

HighlightTurn == last.op \in HighlightOps /\ nops < MaxCalls /\ ~failed

HighlightInit ==
    /\ nops = 0
    /\ GapUnbuilt
    /\ EditorBuilt(HighlightDocument)
    /\ last = Op("Editor::new", 0, 0, HighlightDocument, <<>>)

\* highlight_line: `last` keeps the line number, the runs returned, the
\* line and the editor value before the call.
HighlightLine(line, line_index) ==
    /\ HighlightTurn
    /\ LET out == Editor_highlight_line(EditorSelf, line, line_index)
       IN  EditorOp("Editor::highlight_line", line_index, out.runs, line, out.self)

SetLanguage(new_language) ==
    /\ HighlightTurn
    /\ EditorOp("Editor::set_language", 0, 0, new_language,
                Editor_set_language(EditorSelf, new_language))

SetTheme(theme) ==
    /\ HighlightTurn
    /\ EditorOp("Editor::set_theme", 0, 0, theme, Editor_set_theme(EditorSelf, theme))

\* set_cursor_position to the start of a row.
GoToRow(row) ==
    /\ HighlightTurn
    /\ EditorOp("Editor::set_cursor_position", row, 0, <<>>,
                Editor_set_cursor_position(EditorSelf, CursorPosition(row, 0)))

HighlightSelectAll ==
    /\ HighlightTurn
    /\ EditorOp("Editor::select_all", 0, 0, <<>>, Editor_select_all(EditorSelf))

ReplaceBuffer ==
    /\ HighlightTurn
    /\ EditorOp("Editor::update_buffer", 0, 0, << <<"a">> >>,
                Editor_update_buffer(EditorSelf, << <<"a">> >>))

ReplaceLine(line_index) ==
    /\ HighlightTurn
    /\ EditorOp("Editor::update_line", line_index, 0, <<"a">>,
                Editor_update_line(EditorSelf, line_index, <<"a">>))

CutSelection ==
    /\ HighlightTurn
    /\ EditorOp("Editor::delete_selection", 0, 0, <<>>, Editor_delete_selection(EditorSelf))

TypeChar ==
    /\ HighlightTurn
    /\ EditorOp("Editor::insert_char", 0, 0, <<"a">>, Editor_insert_char(EditorSelf, "a"))

TypeNewline ==
    /\ HighlightTurn
    /\ EditorOp("Editor::insert_newline", 0, 0, <<>>, Editor_insert_newline(EditorSelf))

TypeBackspace ==
    /\ HighlightTurn
    /\ EditorOp("Editor::backspace", 0, 0, <<>>, Editor_backspace(EditorSelf))

TypeDelete ==
    /\ HighlightTurn
    /\ EditorOp("Editor::delete", 0, 0, <<>>, Editor_delete(EditorSelf))

HighlightNext ==
    \/ \E line \in HighlightLines, line_index \in LineNumbers : HighlightLine(line, line_index)
    \/ \E new_language \in LanguageNames : SetLanguage(new_language)
    \/ \E theme \in ThemeNames : SetTheme(theme)
    \/ \E row \in LineNumbers : GoToRow(row)
    \/ HighlightSelectAll
    \/ ReplaceBuffer
    \/ \E line_index \in LineNumbers : ReplaceLine(line_index)
    \/ CutSelection
    \/ TypeChar
    \/ TypeNewline
    \/ TypeBackspace
    \/ TypeDelete

SpecHighlight == HighlightInit /\ [][HighlightNext]_vars

\* The sum of the lengths of runs.
RECURSIVE RunsLen(_)
RunsLen(runs) == IF runs = <<>> THEN 0 ELSE Head(runs).len + RunsLen(Tail(runs))

\* C24: highlight_line returns a non-empty sequence of runs whose lengths
\* sum to the length of the line; for a language without a known syntax it
\* returns one run covering the whole line and leaves the cached states
\* untouched.
C24_RunsCoverLine ==
    last.op = "Editor::highlight_line" =>
        /\ ~failed
        /\ last.b # <<>>
        /\ RunsLen(last.b) = str_len(last.s)
        /\ last.r.language \notin KnownSyntaxes =>
            /\ Len(last.b) = 1
            /\ last.b[1].len = str_len(last.s)
            /\ syntax_highlighter = last.r.syntax_highlighter

\* The empty line has been highlighted in a known language.
C24_Witness ==
    /\ last.op = "Editor::highlight_line"
    /\ last.s = <<>>
    /\ last.r.language \in KnownSyntaxes
    /\ last.b = <<PlainRun(<<>>)>>

\* C25: highlighting the same line number with the same text, language and
\* theme twice, with nothing in between, gives the same runs both times.
C25_CacheCoherence ==
    [][(/\ last.op = "Editor::highlight_line"
        /\ last'.op = "Editor::highlight_line"
        /\ last'.a = last.a
        /\ last'.s = last.s)
       => last'.b = last.b]_vars

\* The lexer state and the colorizer state a highlight_line call for the
\* line number line_index starts from in the editor value e, and the cached
\* entries it takes them from, None where it starts fresh.
ResumedLexer(e, line_index) ==
    IF line_index = 0 THEN None ELSE e.syntax_highlighter.parse_states[e.language]

ResumedColorizer(e, line_index) ==
    IF line_index = 0 THEN None
    ELSE e.syntax_highlighter.highlight_states[<<e.language, e.syntax_highlighter.current_theme>>]

\* C26: line 0 starts from fresh states, and line n > 0 from the states
\* the processing of line n-1 stored, or from fresh states: never from the
\* states another line left.
C26_ResumesFromPreviousLine ==
    (last.op = "Editor::highlight_line" /\ last.r.language \in KnownSyntaxes) =>
        LET lexer == ResumedLexer(last.r, last.a)
            colorizer == ResumedColorizer(last.r, last.a)
        IN  /\ lexer # None => lexer[1].line = last.a - 1
            /\ colorizer # None => colorizer[1].line = last.a - 1

\* The operations of the Editor that edit a row of the document.
RowEdits ==
    {"Editor::insert_char", "Editor::insert_newline", "Editor::backspace",
     "Editor::delete", "Editor::delete_selection", "Editor::update_line"}

\* The first row in which the lines before and after differ.
FirstChangedRow(before, after) ==
    CHOOSE row \in 0..Len(before) :
        /\ \A k \in 1..row : k <= Len(after) /\ before[k] = after[k]
        /\ row < Len(before) => (row >= Len(after) \/ before[row + 1] # after[row + 1])

\* The row of the edit the operation kept in `last` has made: the cursor
\* row for insert_char and delete, the row that was split for
\* insert_newline, the resulting row for backspace, the start row of the
\* selection for delete_selection, and the given row for update_line.
EditedRow ==
    IF last.op = "Editor::update_line" THEN last.a
    ELSE IF last.op = "Editor::delete_selection" THEN SelectionStart(last.r).row
    ELSE IF last.op = "Editor::insert_newline" THEN cursor_position.row - 1
    ELSE cursor_position.row

\* The cached states of a highlighter, whatever their language and theme.
CachedStates(inner) ==
    {inner.parse_states[key] : key \in DOMAIN inner.parse_states}
        \cup {inner.highlight_states[key] : key \in DOMAIN inner.highlight_states}

\* C27: after an edit on row r no state that a line >= r had stored
\* before the edit is left for a later highlight_line to resume from,
\* while the states lines < r had stored are kept.
C27_EditInvalidatesFromRow ==
    (/\ last.op \in RowEdits
     /\ ~failed
     /\ buffer_lines # last.r.lines) =>
        LET before == last.r.syntax_highlighter
            changed == FirstChangedRow(last.r.lines, buffer_lines)
        IN  /\ \A entry \in CachedStates(syntax_highlighter) :
                  entry # None => entry[1].line < changed
            /\ \A key \in DOMAIN before.parse_states :
                  (before.parse_states[key] # None /\ before.parse_states[key][1].line < EditedRow)
                      => syntax_highlighter.parse_states[key] = before.parse_states[key]
            /\ \A key \in DOMAIN before.highlight_states :
                  (before.highlight_states[key] # None
                   /\ before.highlight_states[key][1].line < EditedRow)
                      => syntax_highlighter.highlight_states[key] = before.highlight_states[key]

\* C28: set_theme with a known name makes it the active theme and discards
\* every cached colorizer state, the cached lexer states staying as they
\* were; with an unknown name it changes neither the active theme nor any
\* cached state.
C28_SetTheme ==
    last.op = "Editor::set_theme" =>
        LET pre == last.r
            theme == last.s
        IN  IF theme \in KnownThemes
            THEN /\ current_theme = theme
                 /\ syntax_highlighter.current_theme = theme
                 /\ \A key \in DOMAIN syntax_highlighter.highlight_states :
                        syntax_highlighter.highlight_states[key] = None
                 /\ syntax_highlighter.parse_states = pre.syntax_highlighter.parse_states
            ELSE /\ current_theme = pre.current_theme
                 /\ syntax_highlighter = pre.syntax_highlighter

\* C29: after set_language and after update_buffer every cached lexer and
\* colorizer state is discarded, so that no later highlight_line resumes
\* from a state cached before the change.
C29_LanguageOrBufferChangeDiscardsAll ==
    (last.op \in {"Editor::set_language", "Editor::update_buffer"}) =>
        \A entry \in CachedStates(syntax_highlighter) : entry = None

\* C30: the lexer state highlight_line stores is the one reached by
\* consuming the line once from the state the call started from, the state
\* the returned runs were computed from, in step with the colorizer state
\* the call stores: inside a string literal exactly when the colorizer is.
C30_StoredLexerState ==
    (last.op = "Editor::highlight_line" /\ last.r.language \in KnownSyntaxes) =>
        LET resumed == ResumedLexer(last.r, last.a)
            start == IF resumed = None THEN ParseState_new(last.r.language)
                     ELSE resumed[1].state
            stored == syntax_highlighter.parse_states[editor_language]
            colorizer == syntax_highlighter.highlight_states[
                             <<editor_language, syntax_highlighter.current_theme>>]
        IN  /\ stored # None
            /\ stored[1].state = ParseState_parse_line(start, last.s).state
            /\ (resumed = None /\ ResumedColorizer(last.r, last.a) = None) =>
                   (stored[1].state.in_string <=> colorizer[1].state.depth > 0)

-----------------------------------------------------------------------------
(* An Editor and the clone of it handed to the rendering element.  The     *)
(* Editor derives Clone, and its SyntaxHighlighter is a handle             *)
(* Rc<RefCell<SyntaxHighlighterInner>> that derives Clone too: cloning     *)
(* copies the handle, not the cell.  The variable syntax_highlighter is    *)
(* the cell Editor::new allocated; the clone keeps a handle to it.         *)

\* The handle to the cell of the Editor's highlighter.
Rc == "Rc(Editor.syntax_highlighter)"

\* #[derive(Clone)] of Editor: every field is cloned, the highlighter by
\* Rc::clone.
Editor_clone(self) == [self EXCEPT !.syntax_highlighter = Rc]

\* The value an operation on a handle works on: RefCell::borrow_mut of the
\* cell the handle points to.
borrow_mut(editor) == [editor EXCEPT !.syntax_highlighter = syntax_highlighter]

\* An operation on the clone leaves `new`: the cell the handle points to
\* takes the highlighter of `new`, the fields of the clone the others.
ElementOp(op, a, b, s, new) ==
    /\ syntax_highlighter' = new.syntax_highlighter
    /\ element_editor' = Some([new EXCEPT !.syntax_highlighter = Rc])
    /\ last' = Op(op, a, b, s, EditorSelf)
    /\ nops' = nops + 1
    /\ UNCHANGED <<buffer, gap_start, gap_end, buffer_lines, cursor_position,
                   goal_column, selection_anchor, failed, editor_language,
                   current_theme, config, view_cursor_position>>

CloneOps ==
    {"Editor::new", "Editor::clone", "Editor::highlight_line", "Editor::set_theme",
     "EditorElement::highlight_line", "EditorElement::set_theme"}

CloneTurn == last.op \in CloneOps /\ nops < MaxCalls /\ ~failed

CloneInit ==
    /\ nops = 0
    /\ GapUnbuilt
    /\ EditorBuilt(HighlightDocument)
    /\ last = Op("Editor::new", 0, 0, HighlightDocument, <<>>)

\* EditorElement::new(self.editor.clone()), once per frame.
Render ==
    /\ CloneTurn
    /\ element_editor' = Some(Editor_clone(EditorSelf))
    /\ last' = Op("Editor::clone", 0, 0, <<>>, EditorSelf)
    /\ nops' = nops + 1
    /\ UNCHANGED <<buffer, gap_start, gap_end, buffer_lines, cursor_position,
                   goal_column, selection_anchor, failed, syntax_highlighter,
                   editor_language, current_theme, config, view_cursor_position>>

OriginalHighlightLine(line, line_index) ==
    /\ CloneTurn
    /\ LET out == Editor_highlight_line(EditorSelf, line, line_index)
       IN  EditorOp("Editor::highlight_line", line_index, out.runs, line, out.self)

OriginalSetTheme(theme) ==
    /\ CloneTurn
    /\ EditorOp("Editor::set_theme", 0, 0, theme, Editor_set_theme(EditorSelf, theme))

ElementHighlightLine(line, line_index) ==
    /\ CloneTurn
    /\ element_editor # None
    /\ LET out == Editor_highlight_line(borrow_mut(element_editor[1]), line, line_index)
       IN  ElementOp("EditorElement::highlight_line", line_index, out.runs, line, out.self)

ElementSetTheme(theme) ==
    /\ CloneTurn
    /\ element_editor # None
    /\ ElementOp("EditorElement::set_theme", 0, 0, theme,
                 Editor_set_theme(borrow_mut(element_editor[1]), theme))

CloneNext ==
    \/ Render
    \/ \E line \in HighlightLines, line_index \in LineNumbers :
          OriginalHighlightLine(line, line_index)
    \/ \E theme \in ThemeNames : OriginalSetTheme(theme)
    \/ \E line \in HighlightLines, line_index \in LineNumbers :
          ElementHighlightLine(line, line_index)
    \/ \E theme \in ThemeNames : ElementSetTheme(theme)

SpecClone == CloneInit /\ [][CloneNext]_vars

\* C31: a highlight_line or set_theme call made on a clone of an Editor
\* changes neither the cached lexer and colorizer states nor the active
\* theme of the highlighter the original uses.
C31_CloneLeavesOriginal ==
    [][(last'.op \in {"EditorElement::highlight_line", "EditorElement::set_theme"}
        /\ nops' = nops + 1)
       => syntax_highlighter' = syntax_highlighter]_vars

-----------------------------------------------------------------------------
(* Growth of the gap: a gap buffer whose gap is used up exactly, and then  *)
(* edited further.                                                         *)

\* A text that fills the least gap and leaves none.
Exact == [i \in 1..MinGap |-> "a"]

GrowTexts == {Exact, <<NL>>}

GrowNext ==
    \/ \E o \in Pos : MoveGapTo(o)
    \/ \E ch \in Chars : InsertChar(ch)
    \/ \E pos \in Pos, text \in GrowTexts : Insert(pos, text)
    \/ DeleteBackward
    \/ DeleteForward
    \/ \E start \in Pos, end \in Pos : DeleteRange(start, end)

SpecGrow == GapInit /\ [][GrowNext]_vars

-----------------------------------------------------------------------------
\* C33: the conversions of the gap buffer count characters: for a row of
\* the text, cursor_to_position(row, col) is the number of characters
\* before column col of the row, col counted in characters and clamped to
\* the row, an offset that len() bounds and move_gap_to, insert and
\* delete_range accept; position_to_cursor(pos) is the row and the column,
\* in characters, of the character offset min(pos, len()).
C33_CharacterOffsets ==
    LET rows == split(Text)
    IN  /\ (last.op = "cursor_to_position" /\ last.a < Len(rows)) =>
              /\ last.r[1] = CharsBefore(rows, last.a, Min(last.b, Len(rows[last.a + 1])))
              /\ last.r[1] <= GapBuffer_len(Self)
        /\ last.op = "position_to_cursor" =>
              /\ last.r[1] < Len(rows)
              /\ last.r[2] <= Len(rows[last.r[1] + 1])
              /\ CharsBefore(rows, last.r[1], last.r[2]) = Min(last.a, GapBuffer_len(Self))

-----------------------------------------------------------------------------
(* The editor view of src/src/main.rs: a GapBuffer, a cursor of its own    *)
(* and an Editor rebuilt from the lines of the buffer.  A view is the      *)
(* record of the three; the events are its handlers.                       *)

\* The theme the view starts with: available_themes[current_theme_index].
ViewTheme == "Monokai"

\* self.editor = Editor::new(.., self.buffer.all_lines()), then
\* set_language, set_theme and set_cursor_position.
rebuild_editor(self) ==
    [self EXCEPT !.editor =
        Editor_set_cursor_position(
            Editor_set_theme(
                Editor_set_language(Editor_new(GapBuffer_all_lines(self.buffer)), "Rust"),
                ViewTheme),
            self.cursor_position)]

EditorView_new(initial_text) ==
    LET buffer0 == GapBuffer_from_text(initial_text)
    IN  [buffer |-> buffer0,
         cursor_position |-> CursorPosition(0, 0),
         editor |-> Editor_set_theme(
                        Editor_set_language(Editor_new(GapBuffer_all_lines(buffer0)), "Rust"),
                        ViewTheme)]

EditorView_move_up(self) ==
    IF self.cursor_position.row > 0
    THEN LET row == self.cursor_position.row - 1
             line_len == GapBuffer_line_len(self.buffer, row)
         IN  [self EXCEPT !.cursor_position =
                 CursorPosition(row, Min(self.cursor_position.col, line_len))]
    ELSE self

EditorView_move_down(self) ==
    IF self.cursor_position.row < Max(GapBuffer_line_count(self.buffer) - 1, 0)
    THEN LET row == self.cursor_position.row + 1
             line_len == GapBuffer_line_len(self.buffer, row)
         IN  [self EXCEPT !.cursor_position =
                 CursorPosition(row, Min(self.cursor_position.col, line_len))]
    ELSE self

EditorView_move_left(self) ==
    IF self.cursor_position.col > 0
    THEN [self EXCEPT !.cursor_position.col = @ - 1]
    ELSE IF self.cursor_position.row > 0
    THEN [self EXCEPT !.cursor_position =
             CursorPosition(self.cursor_position.row - 1,
                            GapBuffer_line_len(self.buffer, self.cursor_position.row - 1))]
    ELSE self

EditorView_move_right(self) ==
    LET current_line_len == GapBuffer_line_len(self.buffer, self.cursor_position.row)
    IN  IF self.cursor_position.col < current_line_len
        THEN [self EXCEPT !.cursor_position.col = @ + 1]
        ELSE IF self.cursor_position.row < Max(GapBuffer_line_count(self.buffer) - 1, 0)
        THEN [self EXCEPT !.cursor_position = CursorPosition(self.cursor_position.row + 1, 0)]
        ELSE self

\* The gap moved to the cursor: cursor_to_position, then move_gap_to.
gap_at_cursor(self) ==
    GapBuffer_move_gap_to(self.buffer,
        GapBuffer_cursor_to_position(self.buffer, self.cursor_position.row,
                                     self.cursor_position.col))

\* A faulty variant of backspace: the cursor is not moved back.
backspace_keeping_cursor(self) ==
    [self EXCEPT !.buffer = GapBuffer_delete_backward(gap_at_cursor(self))]

EditorView_backspace(self) ==
    LET buffer1 == GapBuffer_delete_backward(gap_at_cursor(self))
    IN  IF self.cursor_position.col > 0
        THEN [self EXCEPT !.buffer = buffer1, !.cursor_position.col = @ - 1]
        ELSE IF self.cursor_position.row > 0
        THEN [self EXCEPT !.buffer = buffer1,
                          !.cursor_position =
                              CursorPosition(self.cursor_position.row - 1,
                                  GapBuffer_line_len(buffer1, self.cursor_position.row - 1))]
        ELSE [self EXCEPT !.buffer = buffer1]

EditorView_delete(self) ==
    [self EXCEPT !.buffer = GapBuffer_delete_forward(gap_at_cursor(self))]

\* The loop of insert_text over the characters of text from the i-th on.
RECURSIVE insert_text_chars(_, _, _)
insert_text_chars(self, text, i) ==
    IF i > Len(text) THEN self
    ELSE LET buffer1 == GapBuffer_insert_char(self.buffer, text[i])
             cursor == IF text[i] = NL
                       THEN CursorPosition(self.cursor_position.row + 1, 0)
                       ELSE CursorPosition(self.cursor_position.row,
                                           self.cursor_position.col + 1)
         IN  insert_text_chars([self EXCEPT !.buffer = buffer1,
                                            !.cursor_position = cursor], text, i + 1)

EditorView_insert_text(self, text) ==
    rebuild_editor(insert_text_chars([self EXCEPT !.buffer = gap_at_cursor(self)], text, 1))

EditorView_insert_newline(self) ==
    LET inserted == EditorView_insert_text(self, <<NL>>)
    IN  [inserted EXCEPT !.cursor_position =
            CursorPosition(inserted.cursor_position.row + 1, 0)]

\* range is None or Some(<<start, end>>).
EditorView_replace_text_in_range(self, range0, text) ==
    LET pos == GapBuffer_cursor_to_position(self.buffer, self.cursor_position.row,
                                            self.cursor_position.col)
        range == IF range0 = None THEN <<pos, pos>> ELSE range0[1]
        start == range[1]
        end == range[2]
        deleted == IF start < end THEN GapBuffer_delete_range(self.buffer, start, end)
                   ELSE self.buffer
        inserted == GapBuffer_insert(deleted, start, text)
        new_pos == start + str_len(text)
        cursor == GapBuffer_position_to_cursor(inserted, new_pos)
    IN  [self EXCEPT !.buffer = inserted,
                     !.cursor_position = CursorPosition(cursor[1], cursor[2])]

\* Render::render, the part that changes the view.
EditorView_render(self) == rebuild_editor(self)

\* The view as a state machine.
ViewSelf ==
    [buffer |-> Self, cursor_position |-> view_cursor_position, editor |-> EditorSelf]

ViewOps ==
    {"EditorView::new", "EditorView::move_up", "EditorView::move_down",
     "EditorView::move_left", "EditorView::move_right", "EditorView::backspace",
     "EditorView::delete", "EditorView::insert_newline", "EditorView::insert_text",
     "EditorView::replace_text_in_range", "EditorView::render"}

ViewTurn == last.op \in ViewOps /\ nops < MaxOps

\* An event of the view: `last` keeps its name, its arguments and the view
\* it was applied to.
ViewOp(op, a, s, new) ==
    /\ buffer' = new.buffer.buffer
    /\ gap_start' = new.buffer.gap_start
    /\ gap_end' = new.buffer.gap_end
    /\ view_cursor_position' = new.cursor_position
    /\ buffer_lines' = new.editor.lines
    /\ cursor_position' = new.editor.cursor_position
    /\ goal_column' = new.editor.goal_column
    /\ selection_anchor' = new.editor.selection_anchor
    /\ failed' = new.editor.failed
    /\ syntax_highlighter' = new.editor.syntax_highlighter
    /\ editor_language' = new.editor.language
    /\ current_theme' = new.editor.current_theme
    /\ config' = new.editor.config
    /\ last' = Op(op, a, 0, s, ViewSelf)
    /\ nops' = nops + 1
    /\ UNCHANGED element_editor

\* Texts the view is made of, texts handed to insert_text and to
\* replace_text_in_range, and the ranges handed to the latter.
ViewTexts == StringsOver(Chars, MaxLen)
ViewInserts == {<<"a">>, <<"E", NL>>}
ViewReplacements == {<<>>, <<"a">>, <<NL, "E">>}
ViewRanges ==
    {None} \cup {Some(<<start, end>>) : start \in Pos, end \in Pos}

ViewInit ==
    /\ nops = 0
    /\ element_editor = None
    /\ \E t \in ViewTexts :
        LET view == EditorView_new(t)
        IN  /\ buffer = view.buffer.buffer
            /\ gap_start = view.buffer.gap_start
            /\ gap_end = view.buffer.gap_end
            /\ view_cursor_position = view.cursor_position
            /\ buffer_lines = view.editor.lines
            /\ cursor_position = view.editor.cursor_position
            /\ goal_column = view.editor.goal_column
            /\ selection_anchor = view.editor.selection_anchor
            /\ failed = view.editor.failed
            /\ syntax_highlighter = view.editor.syntax_highlighter
            /\ editor_language = view.editor.language
            /\ current_theme = view.editor.current_theme
            /\ config = view.editor.config
            /\ last = Op("EditorView::new", 0, 0, t, <<>>)

ViewMoveUp ==
    /\ ViewTurn
    /\ ViewOp("EditorView::move_up", None, <<>>, EditorView_move_up(ViewSelf))

ViewMoveDown ==
    /\ ViewTurn
    /\ ViewOp("EditorView::move_down", None, <<>>, EditorView_move_down(ViewSelf))

ViewMoveLeft ==
    /\ ViewTurn
    /\ ViewOp("EditorView::move_left", None, <<>>, EditorView_move_left(ViewSelf))

ViewMoveRight ==
    /\ ViewTurn
    /\ ViewOp("EditorView::move_right", None, <<>>, EditorView_move_right(ViewSelf))

ViewBackspace ==
    /\ ViewTurn
    /\ ViewOp("EditorView::backspace", None, <<>>, EditorView_backspace(ViewSelf))

ViewDelete ==
    /\ ViewTurn
    /\ ViewOp("EditorView::delete", None, <<>>, EditorView_delete(ViewSelf))

ViewInsertNewline ==
    /\ ViewTurn
    /\ ViewOp("EditorView::insert_newline", None, <<NL>>,
              EditorView_insert_newline(ViewSelf))

ViewInsertText(text) ==
    /\ ViewTurn
    /\ ViewOp("EditorView::insert_text", None, text, EditorView_insert_text(ViewSelf, text))

ViewReplaceTextInRange(range, text) ==
    /\ ViewTurn
    /\ ViewOp("EditorView::replace_text_in_range", range, text,
              EditorView_replace_text_in_range(ViewSelf, range, text))

ViewRender ==
    /\ ViewTurn
    /\ ViewOp("EditorView::render", None, <<>>, EditorView_render(ViewSelf))

ViewNext ==
    \/ ViewMoveUp
    \/ ViewMoveDown
    \/ ViewMoveLeft
    \/ ViewMoveRight
    \/ ViewBackspace
    \/ ViewDelete
    \/ ViewInsertNewline
    \/ \E text \in ViewInserts : ViewInsertText(text)
    \/ \E range \in ViewRanges, text \in ViewReplacements :
          ViewReplaceTextInRange(range, text)
    \/ ViewRender

SpecView == ViewInit /\ [][ViewNext]_vars

\* The cursor of the view lies in the buffer.
ViewCursorInBuffer ==
    /\ view_cursor_position.row < GapBuffer_line_count(Self)
    /\ view_cursor_position.col <= GapBuffer_line_len(Self, view_cursor_position.row)

\* C34: after any sequence of events of the view, its cursor satisfies
\* row < line_count() and col <= line_len(row) of the gap buffer.
C34_ViewCursorInBuffer == ViewCursorInBuffer

-----------------------------------------------------------------------------
ViewEdits ==
    {"EditorView::insert_text", "EditorView::insert_newline",
     "EditorView::backspace", "EditorView::delete"}

\* C35: after an edit event of the view the cursor is at the edit point,
\* cursor_to_position(cursor.row, cursor.col) = gap_start: a newline leaves
\* it at column 0 of the row after the one it split, and a backspace at
\* column 0 of a row other than the first leaves it where the rows were
\* joined, at the former end of the previous row.
C35_CursorAtEditPoint ==
    last.op \in ViewEdits =>
        LET pre == last.r
        IN  /\ GapBuffer_cursor_to_position(Self, view_cursor_position.row,
                                            view_cursor_position.col) = gap_start
            /\ last.op = "EditorView::insert_newline" =>
                  view_cursor_position = CursorPosition(pre.cursor_position.row + 1, 0)
            /\ (/\ last.op = "EditorView::backspace"
                /\ pre.cursor_position.col = 0
                /\ pre.cursor_position.row > 0
                /\ pre.cursor_position.row < GapBuffer_line_count(pre.buffer)) =>
                  view_cursor_position =
                      CursorPosition(pre.cursor_position.row - 1,
                          GapBuffer_line_len(pre.buffer, pre.cursor_position.row - 1))

-----------------------------------------------------------------------------
\* C36: replace_text_in_range(range, text) replaces the characters of
\* [range.start, range.end), clamped to the content T, with text, a missing
\* range standing for the empty range at the cursor: the content becomes
\* T[0..s] ++ text ++ T[e..] and the cursor ends right after the text put in.
C36_ReplaceTextInRange ==
    (/\ last.op = "EditorView::replace_text_in_range"
     /\ (last.a # None => last.a[1][1] <= last.a[1][2])
     /\ (last.a = None =>
            /\ last.r.cursor_position.row < Len(split(GapBuffer_to_string(last.r.buffer)))
            /\ last.r.cursor_position.col
                  <= Len(split(GapBuffer_to_string(last.r.buffer))[last.r.cursor_position.row + 1])))
    => LET T == GapBuffer_to_string(last.r.buffer)
           at_cursor == CharsBefore(split(T), last.r.cursor_position.row,
                                    last.r.cursor_position.col)
           s == IF last.a = None THEN at_cursor ELSE Min(last.a[1][1], Len(T))
           e == IF last.a = None THEN at_cursor ELSE Min(last.a[1][2], Len(T))
           rows == split(Text)
       IN  /\ Text = SubSeq(T, 1, s) \o last.s \o SubSeq(T, e + 1, Len(T))
           /\ view_cursor_position.row < Len(rows)
           /\ view_cursor_position.col <= Len(rows[view_cursor_position.row + 1])
           /\ CharsBefore(rows, view_cursor_position.row, view_cursor_position.col)
                 = s + Len(last.s)

-----------------------------------------------------------------------------
\* The cursor of editor e is at the end of its document, or beyond it.
AtDocumentEnd(e) ==
    \/ e.cursor_position.row >= Len(e.lines)
    \/ /\ e.cursor_position.row = Len(e.lines) - 1
       /\ e.cursor_position.col >= str_len(e.lines[Len(e.lines)])

\* C37: in a state of the Editor with no selected text, backspace with the
\* cursor not at (0, 0) removes exactly one character or line break from
\* the document, and so does delete with the cursor not at the end of the
\* document, an anchor equal to the cursor included.
C37_NoSelectedTextDeletesOne ==
    (/\ last.op \in {"Editor::backspace", "Editor::delete"}
     /\ Editor_get_selected_text(last.r) = Some(<<>>)
     /\ last.op = "Editor::backspace" => last.r.cursor_position # CursorPosition(0, 0)
     /\ last.op = "Editor::delete" => ~AtDocumentEnd(last.r))
    => /\ ~failed
       /\ Len(join(buffer_lines)) = Len(join(last.r.lines)) - 1

-----------------------------------------------------------------------------
\* C38: in every state the Editor reaches from a document whose lines hold
\* no newline character, no line of the buffer holds one, so line_count()
\* is the number of newline characters of the document plus one.
C38_LinesHoldNoNewline ==
    /\ \A i \in 1..Len(buffer_lines) :
          \A j \in 1..Len(buffer_lines[i]) : buffer_lines[i][j] # NL
    /\ SimpleBuffer_line_count(buffer_lines)
          = Cardinality({i \in 1..Len(join(buffer_lines)) : join(buffer_lines)[i] = NL}) + 1

-----------------------------------------------------------------------------
\* C39: a SimpleBuffer and a GapBuffer built from the same text or line
\* list and driven by the same insert_at, delete_at and backspace_at calls
\* report the same all_lines(), line_count() and line_len(row) after every
\* step.
C39_BuffersInterchangeable ==
    ~failed =>
        /\ SimpleBuffer_all_lines(buffer_lines) = GapBuffer_all_lines(Self)
        /\ SimpleBuffer_line_count(buffer_lines) = GapBuffer_line_count(Self)
        /\ \A row \in Pos :
              SimpleBuffer_line_len(buffer_lines, row) = GapBuffer_line_len(Self, row)

====
